---- MODULE Spec2Model ----
(***************************************************************************)
(* Model of the tabular data engine of rafoz (src/src/App.tsx and utils).  *)
(* Strings are sequences of one-character strings, so that split, trim,    *)
(* lower-casing, parseInt and String(number) are computed and not assumed. *)
(* Identifiers built from template literals (`col_${now}_${idx}`) are      *)
(* tuples of their parts; two identifiers are equal exactly when the       *)
(* template literals would be.                                             *)
(***************************************************************************)
EXTENDS Integers, Sequences, FiniteSets, TLC

VARIABLES folders, activeFolderId, activeTableId, activeFilters,
          selectedRowIds, rowsPage, isAddingRow, isProcessing, newRowValues,
          editingRow, editRowValues, isMassUpdating, massUpdateFields,
          timers, readers, now, lastOp,
          searchInput, deferredSearch, sidebarSearch, expandedCols, tablesPage,
          localStorage, uncaught, call

vars == << folders, activeFolderId, activeTableId, activeFilters,
           selectedRowIds, rowsPage, isAddingRow, isProcessing, newRowValues,
           editingRow, editRowValues, isMassUpdating, massUpdateFields,
           timers, readers, now, lastOp,
           searchInput, deferredSearch, sidebarSearch, expandedCols, tablesPage,
           localStorage, uncaught, call >>

\* the state of the search boxes, of the sidebar and of the table list
searchVars == << searchInput, deferredSearch >>
sideVars == << sidebarSearch, expandedCols >>

(* ------------------------------ bounds --------------------------------- *)
MaxClock == 3
MaxRows == 4
MaxCols == 3

(* -------------------------- program constants --------------------------- *)
SEGMENT_CHAR_LIMIT == 50
PAIRWISE_CAP == 2000
ROWS_PER_PAGE == 50
TABLES_PER_PAGE == 9

(* ------------------------------ strings --------------------------------- *)
Max2(a, b) == IF a > b THEN a ELSE b
\* the WhiteSpace and LineTerminator characters of the inputs; "BOM" is U+FEFF
IsSpace(c) == c \in {" ", "\t", "\n", "\r", "BOM"}

RECURSIVE TrimStart(_)
TrimStart(s) ==
  IF s = << >> THEN << >>
  ELSE IF IsSpace(Head(s)) THEN TrimStart(Tail(s)) ELSE s

RECURSIVE TrimEnd(_)
TrimEnd(s) ==
  IF s = << >> THEN << >>
  ELSE IF IsSpace(s[Len(s)]) THEN TrimEnd(SubSeq(s, 1, Len(s) - 1)) ELSE s

\* String.prototype.trim
Trim(s) == TrimEnd(TrimStart(s))

LowerChar(c) ==
  CASE c = "A" -> "a" [] c = "B" -> "b" [] c = "C" -> "c" [] c = "D" -> "d"
    [] c = "I" -> "i" [] c = "N" -> "n" [] c = "X" -> "x" [] c = "Y" -> "y"
    [] OTHER -> c

\* String.prototype.toLowerCase (on the alphabet the inputs use)
ToLowerCase(s) == [i \in 1..Len(s) |-> LowerChar(s[i])]

\* src/src/utils/formatting.ts: normalizeLabel
normalizeLabel(label) == ToLowerCase(Trim(label))

\* String.prototype.split(sep) for a separator of one character: the pieces
\* between consecutive separators
Split(s, sep) ==
  LET seps == {i \in 1..Len(s) : s[i] = sep}
      n == Cardinality(seps)
      pos(k) == IF k = 0 THEN 0
                ELSE IF k = n + 1 THEN Len(s) + 1
                ELSE CHOOSE i \in seps : Cardinality({j \in seps : j < i}) = k - 1
  IN [k \in 1..(n + 1) |-> SubSeq(s, pos(k - 1) + 1, pos(k) - 1)]

MapTrim(parts) == [i \in 1..Len(parts) |-> Trim(parts[i])]

RECURSIVE FilterNonEmpty(_)
FilterNonEmpty(parts) ==
  IF parts = << >> THEN << >>
  ELSE IF Head(parts) = << >> THEN FilterNonEmpty(Tail(parts))
  ELSE << Head(parts) >> \o FilterNonEmpty(Tail(parts))

Digits == << "0", "1", "2", "3", "4", "5", "6", "7", "8", "9" >>
IsDigit(c) == \E d \in 1..10 : Digits[d] = c
DigitVal(c) == (CHOOSE d \in 1..10 : Digits[d] = c) - 1

RECURSIVE NatToStr(_)
NatToStr(n) ==
  IF n < 10 THEN << Digits[n + 1] >>
  ELSE Append(NatToStr(n \div 10), Digits[(n % 10) + 1])

\* String(n) for an integer n
NumToStr(n) == IF n < 0 THEN << "-" >> \o NatToStr(0 - n) ELSE NatToStr(n)

RECURSIVE DigitsPrefix(_, _, _)
\* value of the longest prefix of digits of s from position i, or -1
\* when there is no digit at position i
DigitsPrefix(s, i, acc) ==
  IF i > Len(s) \/ ~IsDigit(s[i]) THEN acc
  ELSE DigitsPrefix(s, i + 1, (IF acc < 0 THEN 0 ELSE acc) * 10 + DigitVal(s[i]))

\* Number.parseInt(s, 10): leading white space skipped, optional sign,
\* longest digit prefix, trailing text ignored; NaN when there is no digit.
parseInt(str) ==
  LET s == TrimStart(str)
      neg == s # << >> /\ Head(s) = "-"
      body == IF s # << >> /\ Head(s) \in {"-", "+"} THEN Tail(s) ELSE s
      v == DigitsPrefix(body, 1, -1)
  IN IF v < 0 THEN [nan |-> TRUE, num |-> 0]
     ELSE [nan |-> FALSE, num |-> IF neg THEN 0 - v ELSE v]

(* ---------------------------- identifiers ------------------------------- *)
\* An identifier is the template literal that built it: prefix, clock value
\* and suffix.  suf = NoSuffix: `col_${now}`; suf = IdSuffix: `col_${now}_id`;
\* suf >= 0: `col_${now}_${idx}`.  pre = "ext" / "int": a column id read
\* from an imported file (free text / integer-like text).
NoSuffix == 0 - 1
IdSuffix == 0 - 2
MkId(pre, t, suf) == [pre |-> pre, t |-> t, suf |-> suf]
\* null / undefined for an identifier-valued field
NullId == MkId("null", 0, NoSuffix)
\* a column id of an imported file that is the decimal text of n
IntId(n) == MkId("int", n, NoSuffix)

(* --------------------------- records and maps --------------------------- *)
\* row.values[c] || ''   (src/src/App.tsx:284, 304, 513)
Get(values, c) == IF c \in DOMAIN values THEN values[c] ELSE << >>

\* { ...values, [c]: x }
Put(values, c, x) ==
  [k \in (DOMAIN values) \cup {c} |-> IF k = c THEN x ELSE values[k]]

\* delete values[c]
Del(values, c) == [k \in (DOMAIN values) \ {c} |-> values[k]]

EmptyMap == [k \in {} |-> << >>]

\* { ...a, ...b }
Spread(a, b) ==
  [k \in (DOMAIN a) \cup (DOMAIN b) |-> IF k \in DOMAIN b THEN b[k] ELSE a[k]]

Range(seq) == {seq[i] : i \in 1..Len(seq)}

\* Array.prototype.filter with a predicate given as a set of kept indexes
SelectSeq2(seq, keep) ==
  LET kept == {i \in 1..Len(seq) : i \in keep}
      nth(k) == CHOOSE i \in kept : Cardinality({j \in kept : j < i}) = k - 1
  IN [k \in 1..Cardinality(kept) |-> seq[nth(k)]]

ColIds(t) == [i \in 1..Len(t.columns) |-> t.columns[i].id]
ColIdSet(t) == {t.columns[i].id : i \in 1..Len(t.columns)}

(* ---------------------------- derived state ----------------------------- *)
\* folders.find(f => f.id === fid)           (src/src/App.tsx:268)
HasFolder(fs, fid) == \E i \in 1..Len(fs) : fs[i].id = fid
FolderOf(fs, fid) ==
  fs[CHOOSE i \in 1..Len(fs) :
       fs[i].id = fid /\ \A j \in 1..(i - 1) : fs[j].id # fid]

\* activeFolder?.tables.find(t => t.id === tid)   (src/src/App.tsx:269)
HasTable(fs, fid, tid) ==
  HasFolder(fs, fid) /\
  \E i \in 1..Len(FolderOf(fs, fid).tables) : FolderOf(fs, fid).tables[i].id = tid
TableOf(fs, fid, tid) ==
  LET ts == FolderOf(fs, fid).tables
  IN ts[CHOOSE i \in 1..Len(ts) :
          ts[i].id = tid /\ \A j \in 1..(i - 1) : ts[j].id # tid]

hasActiveTable == HasTable(folders, activeFolderId, activeTableId)
activeTable == TableOf(folders, activeFolderId, activeTableId)

\* variant: only the first segment is measured
validateSegments_firstOnly(val) ==
  [isValid |-> Len(Trim(Split(val, "/")[1])) <= SEGMENT_CHAR_LIMIT, invalidSegments |-> << >>]

\* src/unnamed/part_004:16-24
validateSegments(val) ==
  IF val = << >> THEN [isValid |-> TRUE, invalidSegments |-> << >>]
  ELSE LET segments == Split(val, "/")
           bad == {i \in 1..Len(segments) : Len(Trim(segments[i])) > SEGMENT_CHAR_LIMIT}
           invalidSegments == SelectSeq2(segments, bad)
       IN [isValid |-> Len(invalidSegments) = 0, invalidSegments |-> invalidSegments]

\* src/src/App.tsx:293-295
isNewRowDataValid ==
  \A k \in DOMAIN newRowValues : validateSegments(newRowValues[k]).isValid

\* nextIdStart                                  (src/src/App.tsx:407-418)
idColumnIdOf(t) == IF t.autoIdEnabled THEN t.autoIdColumnId ELSE NullId
hasIdColumnOf(t) == idColumnIdOf(t) # NullId /\ idColumnIdOf(t) \in ColIdSet(t)

RECURSIVE maxIdOf(_, _, _)
\* rows.reduce((max, row) => ..., 0) folded from the left; n rows taken
maxIdOf(rows, c, n) ==
  IF n = 0 THEN 0
  ELSE LET max == maxIdOf(rows, c, n - 1)
           p == parseInt(Get(rows[n].values, c))
       IN IF p.nan THEN max ELSE IF p.num > max THEN p.num ELSE max

\* variant: numbering continues from the number of rows
nextIdStartOf_rowCount(t) == Len(t.rows) + 1

nextIdStartOf(t) ==
  IF ~hasIdColumnOf(t) THEN 1
  ELSE maxIdOf(t.rows, idColumnIdOf(t), Len(t.rows)) + 1

(* ---------------------------- row generation ---------------------------- *)
RowIdAt(clock, i) == MkId("row", clock, i)

\* Object.keys of an object whose keys were inserted in the order of ids:
\* each key once; integer-like keys first in ascending order, then the
\* other keys in order of first insertion.
RECURSIVE DedupFirst(_)
DedupFirst(ids) ==
  IF ids = << >> THEN << >>
  ELSE LET n == Len(ids)
           front == DedupFirst(SubSeq(ids, 1, n - 1))
       IN IF ids[n] \in Range(front) THEN front ELSE Append(front, ids[n])

RECURSIVE SortIntKeys(_)
SortIntKeys(S) ==
  IF S = {} THEN << >>
  ELSE LET m == CHOOSE x \in S : \A y \in S : x.t <= y.t
       IN << m >> \o SortIntKeys(S \ {m})

ObjectKeys(ids) ==
  LET d == DedupFirst(ids)
      ints == {d[i] : i \in {j \in 1..Len(d) : d[j].pre = "int"}}
  IN SortIntKeys(ints) \o SelectSeq2(d, {j \in 1..Len(d) : d[j].pre # "int"})

\* variant: empty parts are dropped
classicParts_nonEmpty(nrv, c) == FilterNonEmpty(MapTrim(Split(Get(nrv, c), "/")))

\* colValuesMap[col.id] = val.split('/').map(p => p.trim())   (App.tsx:425-427)
classicParts(nrv, c) == MapTrim(Split(Get(nrv, c), "/"))

\* colValuesMap[col.id][i] || ''   (i counted from 0)
PartAt(parts, i) == IF i + 1 <= Len(parts) THEN parts[i + 1] ELSE << >>

RECURSIVE MaxLenOver(_, _, _)
\* maxRows: the largest parts.length over the columns    (App.tsx:422-429)
MaxLenOver(t, nrv, n) ==
  IF n = 0 THEN 0
  ELSE Max2(MaxLenOver(t, nrv, n - 1), Len(classicParts(nrv, t.columns[n].id)))

\* the rows built by the classic branch                   (App.tsx:420-448)
classicNewRows(t, nrv, clock) ==
  LET maxRows == MaxLenOver(t, nrv, Len(t.columns))
      start == nextIdStartOf(t)
      base(i) == [c \in ColIdSet(t) |-> PartAt(classicParts(nrv, c), i)]
  IN [k \in 1..maxRows |->
        [id |-> RowIdAt(clock, k - 1),
         values |-> IF hasIdColumnOf(t)
                    THEN Put(base(k - 1), idColumnIdOf(t), NumToStr(start + (k - 1)))
                    ELSE base(k - 1)]]

\* options[col.id]                                        (App.tsx:455-460)
pairwiseOptions(nrv, c) ==
  LET parts == FilterNonEmpty(MapTrim(Split(Get(nrv, c), "/")))
  IN IF Len(parts) > 0 THEN parts ELSE << << >> >>

\* generate(idx, current) and its forEach                 (App.tsx:463-468)
RECURSIVE generate(_, _, _, _, _)
RECURSIVE generateEach(_, _, _, _, _, _)
generate(keys, nrv, idx, current, combinations) ==
  IF Len(combinations) >= PAIRWISE_CAP THEN combinations
  ELSE IF idx = Len(keys) THEN Append(combinations, current)
  ELSE generateEach(keys, nrv, idx, current, combinations, 1)

generateEach(keys, nrv, idx, current, combinations, j) ==
  LET opts == pairwiseOptions(nrv, keys[idx + 1])
  IN IF j > Len(opts) THEN combinations
     ELSE generateEach(keys, nrv, idx, current,
            generate(keys, nrv, idx + 1, Put(current, keys[idx + 1], opts[j]),
                     combinations),
            j + 1)

\* the rows built by the deferred pairwise branch         (App.tsx:454-477)
\* t, nrv and start are the values captured when Save was pressed.
pairwiseNewRows(t, nrv, clock) ==
  LET keys == ObjectKeys(ColIds(t))
      combinations == generate(keys, nrv, 0, EmptyMap, << >>)
      start == nextIdStartOf(t)
  IN [k \in 1..Len(combinations) |->
        [id |-> RowIdAt(clock, k - 1),
         values |-> IF hasIdColumnOf(t)
                    THEN Put(combinations[k], idColumnIdOf(t), NumToStr(start + (k - 1)))
                    ELSE combinations[k]]]

(* ------------------------------ JSON values ----------------------------- *)
\* The value JSON.parse returns.  An object is its keys in enumeration
\* order with the values alongside.  A string is either text (characters)
\* or the text of an identifier (JId), as found in an exported file.
JNull == [k |-> "null"]
JStr(s) == [k |-> "string", s |-> s]
JId(id) == [k |-> "string", id |-> id]
JNum(n) == [k |-> "number", n |-> n]
JArr(items) == [k |-> "array", items |-> items]
JObj(keys, vals) == [k |-> "object", keys |-> keys, vals |-> vals]
JUndefined == [k |-> "undefined"]

K ==
  [columns |-> << "c", "o", "l", "u", "m", "n", "s" >>, rows |-> << "r", "o", "w", "s" >>,
   data |-> << "d", "a", "t", "a" >>, id |-> << "i", "d" >>,
   label |-> << "l", "a", "b", "e", "l" >>, values |-> << "v", "a", "l", "u", "e", "s" >>]

\* Object.keys(v)
JKeys(v) ==
  IF v.k = "object" THEN v.keys
  ELSE IF v.k = "array" THEN [i \in 1..Len(v.items) |-> NumToStr(i - 1)]
  ELSE << >>

\* v[key] for a value that is not null or undefined
JProp(v, key) ==
  IF v.k = "object"
  THEN IF \E i \in 1..Len(v.keys) : v.keys[i] = key
       THEN v.vals[CHOOSE i \in 1..Len(v.keys) : v.keys[i] = key]
       ELSE JUndefined
  ELSE IF v.k = "array"
  THEN IF \E i \in 1..Len(v.items) : NumToStr(i - 1) = key
       THEN v.items[CHOOSE i \in 1..Len(v.items) : NumToStr(i - 1) = key]
       ELSE JUndefined
  ELSE JUndefined

JTruthy(v) ==
  CASE v.k \in {"null", "undefined"} -> FALSE
    [] v.k = "number" -> v.n # 0
    [] v.k = "string" -> IF "s" \in DOMAIN v THEN v.s # << >> ELSE TRUE
    [] OTHER -> TRUE

JIsArray(v) == v.k = "array"
JIsNullish(v) == v.k \in {"null", "undefined"}

RECURSIVE JoinComma(_)
ObjectObjectText ==
  << "[", "o", "b", "j", "e", "c", "t", " ", "O", "b", "j", "e", "c", "t", "]" >>

\* String(v) for a value that is not null or undefined
RECURSIVE JString(_)
JString(v) ==
  CASE v.k = "string" -> v.s
    [] v.k = "number" -> NumToStr(v.n)
    [] v.k = "array" -> JoinComma(v.items)
    [] OTHER -> ObjectObjectText

\* Array.prototype.join(','): null and undefined elements give ''
JoinComma(items) ==
  IF items = << >> THEN << >>
  ELSE LET h == IF JIsNullish(Head(items)) THEN << >> ELSE JString(Head(items))
       IN IF Len(items) = 1 THEN h ELSE h \o << "," >> \o JoinComma(Tail(items))

\* val !== null && val !== undefined ? String(val) : ''
CellText(v) == IF JIsNullish(v) THEN << >> ELSE JString(v)

RECURSIVE FlatKeys(_)
\* Array.from(allKeys): every key of every object row, first occurrence kept
FlatKeys(dataArray) ==
  IF dataArray = << >> THEN << >>
  ELSE LET n == Len(dataArray)
           last == dataArray[n]
       IN FlatKeys(SubSeq(dataArray, 1, n - 1))
            \o (IF last.k \in {"object", "array"} THEN JKeys(last) ELSE << >>)

RECURSIVE expandRows(_)
\* expandedRows                                   (src/src/App.tsx:672-684)
\* each expanded row is (source object, replaced key, replacing value)
expandRows(dataArray) ==
  IF dataArray = << >> THEN << >>
  ELSE LET n == Len(dataArray)
           obj == dataArray[n]
           keys == JKeys(obj)
           arrayIdx == {i \in 1..Len(keys) : JIsArray(JProp(obj, keys[i]))}
           front == expandRows(SubSeq(dataArray, 1, n - 1))
       IN IF arrayIdx = {}
          THEN Append(front, [obj |-> obj, hasKey |-> FALSE, key |-> << >>, val |-> JNull])
          ELSE LET first == CHOOSE i \in arrayIdx : \A j \in arrayIdx : i <= j
                   arr == JProp(obj, keys[first]).items
               IN front \o [e \in 1..Len(arr) |->
                              [obj |-> obj, hasKey |-> TRUE, key |-> keys[first],
                               val |-> arr[e]]]

\* ({ ...obj, [firstArrayKey]: val })[key]
ExpandedProp(er, key) ==
  IF er.hasKey /\ er.key = key THEN er.val ELSE JProp(er.obj, key)

(* ------------------------------ JSON import ----------------------------- *)
IsIdString(v) == v.k = "string" /\ "id" \in DOMAIN v
IsTextString(v) == v.k = "string" /\ "s" \in DOMAIN v

ColIdAt(clock, idx) == MkId("col", clock, idx)

\* parsed && Array.isArray(parsed.columns) && Array.isArray(parsed.rows)
isNativeShape(parsed) ==
  JTruthy(parsed) /\ JIsArray(JProp(parsed, K.columns)) /\ JIsArray(JProp(parsed, K.rows))

\* columnsFromFile                                      (src/src/App.tsx:593)
\* variant: a column whose id is a number is accepted under the id's text
columnsFromFile_anyId(parsed) ==
  LET cs == JProp(parsed, K.columns).items
      kept == SelectSeq2(cs, {i \in 1..Len(cs) :
                 JTruthy(cs[i]) /\ IsTextString(JProp(cs[i], K.label))})
  IN [i \in 1..Len(kept) |->
        [id |-> IF IsIdString(JProp(kept[i], K.id)) THEN JProp(kept[i], K.id).id
                ELSE IntId(JProp(kept[i], K.id).n),
         label |-> JProp(kept[i], K.label).s]]

columnsFromFile(parsed) ==
  LET cs == JProp(parsed, K.columns).items
      keep == {i \in 1..Len(cs) :
                 JTruthy(cs[i]) /\ IsIdString(JProp(cs[i], K.id))
                                /\ IsTextString(JProp(cs[i], K.label))}
      kept == SelectSeq2(cs, keep)
  IN [i \in 1..Len(kept) |->
        [id |-> JProp(kept[i], K.id).id, label |-> JProp(kept[i], K.label).s]]

\* the values of one imported native row: Object.entries(row.values || {})
nativeValues(row) ==
  LET v == JProp(row, K.values)
      keys == IF v.k = "object" THEN v.keys ELSE << >>
  IN [c \in Range(keys) |->
        CellText(v.vals[CHOOSE i \in 1..Len(keys) :
                          keys[i] = c /\ \A j \in (i + 1)..Len(keys) : keys[j] # c])]

\* newRows of the native shape                       (src/src/App.tsx:598-613)
nativeNewRows(parsed, t, clock) ==
  LET rs == JProp(parsed, K.rows).items
      rowsFromFile == SelectSeq2(rs, {i \in 1..Len(rs) :
                                        JTruthy(rs[i]) /\ JTruthy(JProp(rs[i], K.values))})
      start == nextIdStartOf(t)
  IN [k \in 1..Len(rowsFromFile) |->
        [id |-> RowIdAt(clock, k - 1),
         values |-> IF hasIdColumnOf(t)
                    THEN Put(nativeValues(rowsFromFile[k]), idColumnIdOf(t),
                             NumToStr(start + (k - 1)))
                    ELSE nativeValues(rowsFromFile[k])]]

\* dataArray                                         (src/src/App.tsx:631-642)
dataArrayOf(parsed) ==
  IF JTruthy(JProp(parsed, K.data)) /\ JIsArray(JProp(parsed, K.data))
  THEN JProp(parsed, K.data).items
  ELSE IF JIsArray(parsed) THEN parsed.items
  ELSE IF parsed.k = "object" THEN << parsed >>
  ELSE << >>

\* colKeys and newColumns                            (src/src/App.tsx:649-669)
colKeysOf(dataArray) == DedupFirst(FlatKeys(dataArray))

genericNewColumns(dataArray, clock) ==
  LET colKeys == colKeysOf(dataArray)
  IN [i \in 1..Len(colKeys) |-> [id |-> ColIdAt(clock, i - 1), label |-> colKeys[i]]]

\* newRows of the generic shape                      (src/src/App.tsx:686-700)
genericNewRows(dataArray, t, clock) ==
  LET newColumns == genericNewColumns(dataArray, clock)
      expandedRows == expandRows(dataArray)
      start == nextIdStartOf(t)
      valuesOf(er) ==
        [c \in {newColumns[i].id : i \in 1..Len(newColumns)} |->
           CellText(ExpandedProp(er,
             newColumns[CHOOSE i \in 1..Len(newColumns) : newColumns[i].id = c].label))]
  IN [k \in 1..Len(expandedRows) |->
        [id |-> RowIdAt(clock, k - 1),
         values |-> IF hasIdColumnOf(t)
                    THEN Put(valuesOf(expandedRows[k]), idColumnIdOf(t),
                             NumToStr(start + (k - 1)))
                    ELSE valuesOf(expandedRows[k])]]

\* What an import of the parse result does, with t the table the handler
\* captured: "fail" (alert, nothing applied), or the columns and rows that
\* the updater merges.          (src/src/App.tsx:572-720 and 722-880)
jsonImport(parse, t, clock) ==
  LET Fail == [outcome |-> "fail", columns |-> << >>, rows |-> << >>]
  IN IF ~parse.ok THEN Fail
     ELSE LET parsed == parse.value IN
       IF isNativeShape(parsed)
       THEN IF Len(columnsFromFile(parsed)) = 0 THEN Fail
            ELSE [outcome |-> "native", columns |-> columnsFromFile(parsed),
                  rows |-> nativeNewRows(parsed, t, clock)]
       ELSE IF parsed.k = "null" THEN Fail            \* parsed.data throws
       ELSE LET dataArray == dataArrayOf(parsed) IN
         IF Len(dataArray) = 0 THEN Fail
         ELSE IF Len(colKeysOf(dataArray)) = 0 THEN Fail
         ELSE IF \E i \in 1..Len(dataArray) : dataArray[i].k = "null"
              THEN Fail                               \* Object.keys(null) throws
         ELSE [outcome |-> "generic", columns |-> genericNewColumns(dataArray, clock),
               rows |-> genericNewRows(dataArray, t, clock)]

\* variant: the imported rows are put first
nativeUpdater_prepend(t, fileColumns, newRows) ==
  LET existingIds == ColIdSet(t)
      columnsToAdd == SelectSeq2(fileColumns,
                        {i \in 1..Len(fileColumns) : fileColumns[i].id \notin existingIds})
  IN [t EXCEPT !.columns = t.columns \o columnsToAdd, !.rows = newRows \o t.rows]

\* the updater of the native shape                   (src/src/App.tsx:615-623)
nativeUpdater(t, fileColumns, newRows) ==
  LET existingIds == ColIdSet(t)
      columnsToAdd == SelectSeq2(fileColumns,
                        {i \in 1..Len(fileColumns) : fileColumns[i].id \notin existingIds})
  IN [t EXCEPT !.columns = t.columns \o columnsToAdd, !.rows = t.rows \o newRows]

\* the updater of the generic shape                  (src/src/App.tsx:703-712)
genericUpdater(t, newColumns, newRows) ==
  LET existingLabels == {normalizeLabel(t.columns[i].label) : i \in 1..Len(t.columns)}
      columnsToAdd == SelectSeq2(newColumns,
                        {i \in 1..Len(newColumns) :
                           normalizeLabel(newColumns[i].label) \notin existingLabels})
  IN [t EXCEPT !.columns = t.columns \o columnsToAdd, !.rows = t.rows \o newRows]

jsonUpdater(t, plan) ==
  IF plan.outcome = "native" THEN nativeUpdater(t, plan.columns, plan.rows)
  ELSE genericUpdater(t, plan.columns, plan.rows)

(* ------------------------------- CSV ------------------------------------ *)
RECURSIVE scanCSV(_, _, _, _, _, _)
\* the for loop of parseCSV                        (src/src/utils/csv.ts:7-37)
scanCSV(text, i, rows, row, cell, inQuotes) ==
  IF i > Len(text) THEN Append(rows, Append(row, cell))
  ELSE LET char == text[i] IN
    IF char = "\""
    THEN IF inQuotes /\ i + 1 <= Len(text) /\ text[i + 1] = "\""
         THEN scanCSV(text, i + 2, rows, row, Append(cell, "\""), inQuotes)
         ELSE scanCSV(text, i + 1, rows, row, cell, ~inQuotes)
    ELSE IF char = "," /\ ~inQuotes
    THEN scanCSV(text, i + 1, rows, Append(row, cell), << >>, inQuotes)
    ELSE IF char = "\n" /\ ~inQuotes
    THEN scanCSV(text, i + 1, Append(rows, Append(row, cell)), << >>, << >>, inQuotes)
    ELSE IF char = "\r"
    THEN scanCSV(text, i + 1, rows, row, cell, inQuotes)
    ELSE scanCSV(text, i + 1, rows, row, Append(cell, char), inQuotes)

\* r.some(c => c.trim() !== '')
someNonBlank(r) == \E i \in 1..Len(r) : Trim(r[i]) # << >>

\* src/src/utils/csv.ts:1-42
parseCSV(text) ==
  LET rows == scanCSV(text, 1, << >>, << >>, << >>, FALSE)
  IN SelectSeq2(rows, {i \in 1..Len(rows) : someNonBlank(rows[i])})

\* Array.prototype.join(sep) on strings
RECURSIVE JoinWith(_, _)
JoinWith(parts, sep) ==
  IF parts = << >> THEN << >>
  ELSE IF Len(parts) = 1 THEN parts[1]
  ELSE parts[1] \o sep \o JoinWith(Tail(parts), sep)

\* an escape that quotes the cell without doubling the quotes in it
escapeCell_noDoubling(value) ==
  IF \E i \in 1..Len(value) : value[i] \in {"\"", ",", "\n"}
  THEN << "\"" >> \o value \o << "\"" >>
  ELSE value

\* src/src/utils/csv.ts:45-49
escapeCell(value) ==
  IF \E i \in 1..Len(value) : value[i] \in {"\"", ",", "\n"}
  THEN << "\"" >>
         \o JoinWith([i \in 1..Len(value) |->
                        IF value[i] = "\"" THEN << "\"", "\"" >> ELSE << value[i] >>],
                     << >>)
         \o << "\"" >>
  ELSE value

\* src/src/utils/csv.ts:44-51
stringifyCSV(rows) ==
  JoinWith([r \in 1..Len(rows) |->
              JoinWith([c \in 1..Len(rows[r]) |-> escapeCell(rows[r][c])], << "," >>)],
           << "\n" >>)

\* headers: trimmed, then replace(/^\uFEFF/, '') on a non-empty first header
\*                                                 (src/src/App.tsx:906-907)
csvHeaders(rows) ==
  LET hs == MapTrim(rows[1])
      stripBOM(h) == IF h # << >> /\ Head(h) = "BOM" THEN Tail(h) ELSE h
  IN [i \in 1..Len(hs) |-> IF i = 1 /\ hs[1] # << >> THEN stripBOM(hs[1]) ELSE hs[i]]

\* dataRows                                        (src/src/App.tsx:908)
csvDataRows(rows) ==
  LET rest == Tail(rows)
  IN SelectSeq2(rest, {i \in 1..Len(rest) : someNonBlank(rest[i])})

ColumnNText == << "C", "o", "l", "u", "m", "n", " " >>

RECURSIVE csvHeaderLoop(_, _, _, _)
\* headers.forEach over the first n headers        (src/src/App.tsx:916-929)
\* result: the columns added so far, the existing ids used so far and the
\* column id of every header so far
csvHeaderLoop(t, headers, clock, n) ==
  IF n = 0 THEN [addedColumns |-> << >>, usedExisting |-> {}, headerToColId |-> << >>]
  ELSE LET prev == csvHeaderLoop(t, headers, clock, n - 1)
           raw == headers[n]
           label == IF raw # << >> THEN raw ELSE ColumnNText \o NumToStr(n)
           norm == normalizeLabel(label)
           \* new Map(t.columns.map(c => [normalizeLabel(c.label), c])).get(norm):
           \* the last column with that normalized label
           hits == {i \in 1..Len(t.columns) : normalizeLabel(t.columns[i].label) = norm}
           existing == t.columns[CHOOSE i \in hits : \A j \in hits : j <= i]
       IN IF hits # {} /\ existing.id \notin prev.usedExisting
          THEN [addedColumns |-> prev.addedColumns,
                usedExisting |-> prev.usedExisting \cup {existing.id},
                headerToColId |-> Append(prev.headerToColId, existing.id)]
          ELSE [addedColumns |-> Append(prev.addedColumns,
                                        [id |-> ColIdAt(clock, n - 1), label |-> label]),
                usedExisting |-> prev.usedExisting,
                headerToColId |-> Append(prev.headerToColId, ColIdAt(clock, n - 1))]

\* an updater that leaves the rows of the table as they are
csvUpdater_noBackfill(t, snap, rows, clock) ==
  LET headers == csvHeaders(rows)
      dataRows == csvDataRows(rows)
      loop == csvHeaderLoop(t, headers, clock, Len(headers))
      newColumns == t.columns \o loop.addedColumns
      h2c == loop.headerToColId
      start == nextIdStartOf(snap)
      addedIds == {loop.addedColumns[i].id : i \in 1..Len(loop.addedColumns)}
      allIds == {newColumns[i].id : i \in 1..Len(newColumns)}
      \* headerToColId.forEach((cid, i) => values[cid] = row[i] ?? ''): a later
      \* header with the same column id overwrites an earlier one
      cellOf(row, c) ==
        LET idx == {i \in 1..Len(h2c) : h2c[i] = c}
            last == CHOOSE i \in idx : \A j \in idx : j <= i
        IN IF idx = {} THEN << >>
           ELSE IF last <= Len(row) THEN row[last] ELSE << >>
      base(row) == [c \in allIds |-> cellOf(row, c)]
      newRows == [k \in 1..Len(dataRows) |->
                    [id |-> RowIdAt(clock, k - 1),
                     values |-> IF hasIdColumnOf(snap)
                                THEN Put(base(dataRows[k]), idColumnIdOf(snap),
                                         NumToStr(start + (k - 1)))
                                ELSE base(dataRows[k])]]
      existingRows == t.rows
  IN [t EXCEPT !.columns = newColumns, !.rows = existingRows \o newRows]

\* the updater of handleImportCSV                  (src/src/App.tsx:909-948)
\* snap is the table the handler captured (identifier numbering), t the
\* table the updater receives.
csvUpdater(t, snap, rows, clock) ==
  LET headers == csvHeaders(rows)
      dataRows == csvDataRows(rows)
      loop == csvHeaderLoop(t, headers, clock, Len(headers))
      newColumns == t.columns \o loop.addedColumns
      h2c == loop.headerToColId
      start == nextIdStartOf(snap)
      addedIds == {loop.addedColumns[i].id : i \in 1..Len(loop.addedColumns)}
      allIds == {newColumns[i].id : i \in 1..Len(newColumns)}
      \* headerToColId.forEach((cid, i) => values[cid] = row[i] ?? ''): a later
      \* header with the same column id overwrites an earlier one
      cellOf(row, c) ==
        LET idx == {i \in 1..Len(h2c) : h2c[i] = c}
            last == CHOOSE i \in idx : \A j \in idx : j <= i
        IN IF idx = {} THEN << >>
           ELSE IF last <= Len(row) THEN row[last] ELSE << >>
      base(row) == [c \in allIds |-> cellOf(row, c)]
      newRows == [k \in 1..Len(dataRows) |->
                    [id |-> RowIdAt(clock, k - 1),
                     values |-> IF hasIdColumnOf(snap)
                                THEN Put(base(dataRows[k]), idColumnIdOf(snap),
                                         NumToStr(start + (k - 1)))
                                ELSE base(dataRows[k])]]
      addedDefaults == [c \in addedIds |-> << >>]
      existingRows == [i \in 1..Len(t.rows) |->
                         [t.rows[i] EXCEPT !.values = Spread(addedDefaults, t.rows[i].values)]]
  IN [t EXCEPT !.columns = newColumns, !.rows = existingRows \o newRows]

(* ---------------------------- table updaters ---------------------------- *)
\* the updater of handleDeleteColumn                (src/src/App.tsx:380-390)
deleteColumnUpdater(t, colId) ==
  [t EXCEPT
     !.autoIdEnabled = IF t.autoIdColumnId = colId THEN FALSE ELSE @,
     !.autoIdColumnId = IF t.autoIdColumnId = colId THEN NullId ELSE @,
     !.columns = SelectSeq2(@, {i \in 1..Len(@) : @[i].id # colId}),
     !.rows = [i \in 1..Len(@) |-> [@[i] EXCEPT !.values = Del(@, colId)]]]

\* findIndex(c => c.id === id) + 1, or 0
findIndex(columns, id) ==
  IF \E i \in 1..Len(columns) : columns[i].id = id
  THEN CHOOSE i \in 1..Len(columns) :
         columns[i].id = id /\ \A j \in 1..(i - 1) : columns[j].id # id
  ELSE 0

\* the updater of handleColumnDrop                  (src/src/App.tsx:990-998)
columnDropUpdater(t, dragColId, targetColId) ==
  LET fromIndex == findIndex(t.columns, dragColId)
      toIndex == findIndex(t.columns, targetColId)
      without == SubSeq(t.columns, 1, fromIndex - 1)
                   \o SubSeq(t.columns, fromIndex + 1, Len(t.columns))
  IN IF fromIndex = 0 \/ toIndex = 0 THEN t
     ELSE [t EXCEPT !.columns = SubSeq(without, 1, toIndex - 1)
                                  \o << t.columns[fromIndex] >>
                                  \o SubSeq(without, toIndex, Len(without))]

\* the updater of Bulk Edit, Apply               (src/src/App.tsx:1699-1709)
bulkEditUpdater(t, fields, selected) ==
  LET enabledIds == {c \in DOMAIN fields : fields[c].enabled}
  IN [t EXCEPT !.rows =
        [i \in 1..Len(@) |->
           IF @[i].id \notin selected THEN @[i]
           ELSE [@[i] EXCEPT !.values =
                   Spread(@, [c \in enabledIds |-> fields[c].value])]]]

\* The updater closures handed to updateActiveTable, as records of what they
\* captured; applyUpdater(u, t) is the call updater(t).
applyUpdater(u, t) ==
  CASE u.kind = "addColumn" -> [t EXCEPT !.columns = Append(@, u.column)]
    [] u.kind = "renameColumn" ->
         [t EXCEPT !.columns = [i \in 1..Len(@) |->
                                  IF @[i].id = u.colId
                                  THEN [@[i] EXCEPT !.label = u.label] ELSE @[i]]]
    [] u.kind = "deleteColumn" -> deleteColumnUpdater(t, u.colId)
    [] u.kind = "columnDrop" -> columnDropUpdater(t, u.dragColId, u.targetColId)
    [] u.kind = "prependRows" -> [t EXCEPT !.rows = u.rows \o @]
    [] u.kind = "saveEdit" ->
         [t EXCEPT !.rows = [i \in 1..Len(@) |->
                               IF @[i].id = u.rowId
                               THEN [@[i] EXCEPT !.values = u.values] ELSE @[i]]]
    [] u.kind = "bulkEdit" -> bulkEditUpdater(t, u.fields, u.selected)
    [] u.kind = "deleteRows" ->
         [t EXCEPT !.rows = SelectSeq2(@, {i \in 1..Len(@) : @[i].id \notin u.ids})]
    [] u.kind = "json" -> jsonUpdater(t, u.plan)
    [] u.kind = "csv" -> csvUpdater(t, u.snap, u.rows, u.clock)

\* an update that transforms every table of the active folder
updateActiveTable_everyTable(fs, fid, tid, updater, clock) ==
  [i \in 1..Len(fs) |->
     IF fs[i].id = fid
     THEN [fs[i] EXCEPT
             !.tables = [j \in 1..Len(fs[i].tables) |->
                           [applyUpdater(updater, fs[i].tables[j])
                              EXCEPT !.updatedAt = clock]],
             !.updatedAt = clock]
     ELSE fs[i]]

\* src/src/App.tsx:374-376.  Date.now() is read once per call (clock).
updateActiveTable(fs, fid, tid, updater, clock) ==
  [i \in 1..Len(fs) |->
     IF fs[i].id = fid
     THEN [fs[i] EXCEPT
             !.tables = [j \in 1..Len(fs[i].tables) |->
                           IF fs[i].tables[j].id = tid
                           THEN [applyUpdater(updater, fs[i].tables[j])
                                   EXCEPT !.updatedAt = clock]
                           ELSE fs[i].tables[j]],
             !.updatedAt = clock]
     ELSE fs[i]]

(* ------------------------------- inputs --------------------------------- *)
LabelID == << "I", "D" >>
ExtId1 == MkId("ext", 1, NoSuffix)
ExtId2 == MkId("ext", 2, NoSuffix)

\* what the user can type as a column label
Labels == << << "a" >>, << "A" >>, << "b" >> >>

\* what the user can type into a cell of the edit and bulk-edit dialogs
CellTexts == << << >>, << "x" >> >>

\* what the user can type into a field of the new-row dialog
LongSegment == [i \in 1..(SEGMENT_CHAR_LIMIT + 1) |-> "a"]
\* a segment that trims to exactly the limit
EdgeSegment == << " " >> \o [i \in 1..SEGMENT_CHAR_LIMIT |-> "a"]
\* x  |  x/ /y   |  y/<51 times a>  |  <space><50 times a>
NewRowTexts ==
  << << "x" >>, << "x", "/", " ", "/", "y", " " >>, << "y", "/" >> \o LongSegment, EdgeSegment >>

\* results of JSON.parse on the text the user pastes or the file holds
JsonOf(v) == [ok |-> TRUE, value |-> v]
JsonPayloads ==
  << [ok |-> FALSE],
     JsonOf(JNull),
     JsonOf(JArr(<< >>)),
     \* native shape without a usable column (the id is a number)
     JsonOf(JObj(<< K.columns, K.rows >>,
                 << JArr(<< JObj(<< K.id, K.label >>, << JNum(5), JStr(<< "a" >>) >>) >>),
                    JArr(<< JObj(<< K.values >>, << JObj(<< >>, << >>) >>) >>) >>)),
     \* native shape: one column, one row that also has a value for a
     \* column the file does not list
     JsonOf(JObj(<< K.columns, K.rows >>,
                 << JArr(<< JObj(<< K.id, K.label >>, << JId(ExtId1), JStr(<< "a" >>) >>) >>),
                    JArr(<< JObj(<< K.values >>,
                                 << JObj(<< ExtId1, ExtId2 >>, << JStr(<< "x" >>), JNum(7) >>) >>) >>) >>)),
     \* native shape listing the same column id twice
     JsonOf(JObj(<< K.columns, K.rows >>,
                 << JArr(<< JObj(<< K.id, K.label >>, << JId(ExtId1), JStr(<< "a" >>) >>),
                            JObj(<< K.id, K.label >>, << JId(ExtId1), JStr(<< "b" >>) >>) >>),
                    JArr(<< >>) >>)),
     \* generic shape: [{"a": "x"}]
     JsonOf(JArr(<< JObj(<< << "a" >> >>, << JStr(<< "x" >>) >>) >>)),
     \* generic shape: [{"A": "x", "a": 7}]
     JsonOf(JArr(<< JObj(<< << "A" >>, << "a" >> >>, << JStr(<< "x" >>), JNum(7) >>) >>)),
     \* generic shape: {"data": [{"b": ["x", "y"]}]}
     JsonOf(JObj(<< K.data >>,
                 << JArr(<< JObj(<< << "b" >> >>,
                                 << JArr(<< JStr(<< "x" >>), JStr(<< "y" >>) >>) >>) >>) >>)),
     \* native shape: {"columns":[{"id":"2","label":"b"},{"id":"1","label":"a"}],"rows":[]}
     JsonOf(JObj(<< K.columns, K.rows >>,
                 << JArr(<< JObj(<< K.id, K.label >>, << JId(IntId(2)), JStr(<< "b" >>) >>),
                            JObj(<< K.id, K.label >>, << JId(IntId(1)), JStr(<< "a" >>) >>) >>),
                    JArr(<< >>) >>)) >>

\* the text of the CSV files the user can pick
CsvTexts ==
  << \* a,A\nx,y
     << "a", ",", "A", "\n", "x", ",", "y" >>,
     \* b\n"x,y"\n
     << "b", "\n", "\"", "x", ",", "y", "\"", "\n" >>,
     \* a header alone
     << "a" >> >>

\* CSV files whose headers are blank, repeat a label or name the ID column
CsvHeaderTexts ==
  << \* ,b\n1
     << ",", "b", "\n", "1" >>,
     \* id,a\n9,x
     << "i", "d", ",", "a", "\n", "9", ",", "x" >> >>

\* the files the user can pick in the CSV file dialog
CsvFiles == CsvTexts \o CsvHeaderTexts

(* ------------------------------ the state ------------------------------- *)
MaxFolders == 1
MaxTables == 1
MaxReaders == 1

\* lastOp records the handler that ran last and the table it addressed
OpOn(name, arg, fid, tid) == [op |-> name, arg |-> arg, fid |-> fid, tid |-> tid]
Op(name, arg) == OpOn(name, arg, activeFolderId, activeTableId)

FolderIdAt(clock) == MkId("folder", clock, NoSuffix)
TableIdAt(clock) == MkId("table", clock, NoSuffix)

\* localStorage as the program sees it: the item under 'rafoz_data' (absent,
\* the empty string, text that JSON.parse rejects, or the JSON text of a
\* collection), whether getItem and setItem throw, and what the read at
\* startup met
JsonItem(fs) == [kind |-> "json", value |-> fs]
Storage(item, getThrows, setThrows) ==
  [item |-> item, getThrows |-> getThrows, setThrows |-> setThrows,
   read |-> IF getThrows THEN "throws" ELSE item.kind]

\* the initial value of folders                      (src/src/App.tsx:190-196)
loadFolders(ls) ==
  IF ls.getThrows THEN << >>
  ELSE IF ls.item.kind \in {"null", "empty"} THEN << >>
  ELSE IF ls.item.kind = "corrupt" THEN << >>
  ELSE ls.item.value

\* localStorage.setItem('rafoz_data', JSON.stringify(fs)), which throws when
\* the storage refuses the write                        (src/src/App.tsx:263)
setItem(ls, fs) ==
  IF ls.setThrows THEN [localStorage |-> ls, uncaught |-> "QuotaExceededError"]
  ELSE [localStorage |-> [ls EXCEPT !.item = JsonItem(fs)], uncaught |-> "none"]

\* src/src/App.tsx:190-263: the state after construction and the first run
\* of the effects, with ls the localStorage the program starts with
InitState(ls) ==
  /\ folders = loadFolders(ls)
  /\ localStorage = setItem(ls, loadFolders(ls)).localStorage
  /\ uncaught = setItem(ls, loadFolders(ls)).uncaught
  /\ call = [fn |-> "none"]
  /\ activeFolderId = NullId
  /\ activeTableId = NullId
  /\ activeFilters = << >>
  /\ selectedRowIds = {}
  /\ rowsPage = 1
  /\ isAddingRow = FALSE
  /\ isProcessing = FALSE
  /\ newRowValues = EmptyMap
  /\ editingRow = NullId
  /\ editRowValues = EmptyMap
  /\ isMassUpdating = FALSE
  /\ massUpdateFields = EmptyMap
  /\ timers = << >>
  /\ readers = << >>
  /\ now = 1
  /\ lastOp = Op("init", 0)
  /\ searchInput = << >>
  /\ deferredSearch = << >>
  /\ sidebarSearch = << >>
  /\ expandedCols = EmptyMap
  /\ tablesPage = 1

\* the state after construction, with stored the collection JSON.parse
\* reads from a working localStorage
InitWith(stored) == InitState(Storage(JsonItem(stored), FALSE, FALSE))

\* the effect on folders: an error thrown by setItem is caught nowhere, and
\* an uncaught error in an effect unmounts the application
\* (src/src/App.tsx:263)
persistenceEffect ==
  IF folders' = folders THEN UNCHANGED << localStorage, uncaught >>
  ELSE /\ localStorage' = setItem(localStorage, folders').localStorage
       /\ uncaught' = setItem(localStorage, folders').uncaught

\* no modal dialog is open, so the controls of the view can be used
noModal == ~isAddingRow /\ editingRow = NullId /\ ~isMassUpdating
inTableView == activeFolderId # NullId /\ activeTableId # NullId
canUseTable == inTableView /\ hasActiveTable /\ noModal

isIdField(t, c) == t.autoIdEnabled /\ t.autoIdColumnId = c

\* Date.now(): handlers run at least one clock unit apart, so a handler that
\* reads the clock leaves it one later for the next handler.
\* src/src/App.tsx:347-352
createFolder ==
  /\ activeFolderId = NullId
  /\ folders' = << [id |-> FolderIdAt(now), tables |-> << >>, updatedAt |-> now] >> \o folders
  /\ lastOp' = Op("createFolder", 0)
  /\ UNCHANGED << searchVars, sidebarSearch, tablesPage, activeFolderId, activeTableId, activeFilters,
                  selectedRowIds, rowsPage, isAddingRow, isProcessing, newRowValues,
                  editingRow, editRowValues, isMassUpdating, massUpdateFields,
                  timers, readers >>
  /\ now' = now + 1

\* the effect on activeTableId                          (src/src/App.tsx:265)
tableChangeEffect(newTableId) ==
  IF newTableId # activeTableId
  THEN rowsPage' = 1 /\ selectedRowIds' = {} /\ activeFilters' = << >>
       /\ searchInput' = << >> /\ UNCHANGED deferredSearch
  ELSE UNCHANGED << rowsPage, selectedRowIds, activeFilters, searchVars >>

\* a folder card is clicked, or the back button of the table list
\* (src/src/App.tsx:1019, 1076) with the effect of line 264
setActiveFolderId(fid) ==
  /\ activeTableId = NullId
  /\ noModal
  /\ fid # activeFolderId
  /\ fid = NullId \/ (activeFolderId = NullId /\ HasFolder(folders, fid))
  /\ activeFolderId' = fid
  /\ activeTableId' = NullId
  /\ tableChangeEffect(NullId)
  /\ lastOp' = Op("setActiveFolderId", 0)
  /\ tablesPage' = 1
  /\ UNCHANGED << sidebarSearch, folders, isAddingRow, isProcessing, newRowValues,
                  editingRow, editRowValues, isMassUpdating, massUpdateFields,
                  timers, readers, now >>

\* src/src/App.tsx:354-372
createTableInFolder(modalTableType, isAutoIdEnabled) ==
  /\ activeFolderId # NullId /\ activeTableId = NullId
  /\ HasFolder(folders, activeFolderId)
  /\ LET idColumn == [id |-> MkId("col", now, IdSuffix), label |-> LabelID]
         newTable == [id |-> TableIdAt(now),
                      type |-> modalTableType,
                      columns |-> IF isAutoIdEnabled THEN << idColumn >> ELSE << >>,
                      rows |-> << >>,
                      autoIdEnabled |-> isAutoIdEnabled,
                      autoIdColumnId |-> IF isAutoIdEnabled THEN idColumn.id ELSE NullId,
                      updatedAt |-> now]
     IN /\ folders' = [i \in 1..Len(folders) |->
                         IF folders[i].id = activeFolderId
                         THEN [folders[i] EXCEPT !.tables = << newTable >> \o @,
                                                 !.updatedAt = now]
                         ELSE folders[i]]
        /\ activeTableId' = newTable.id
        /\ tableChangeEffect(newTable.id)
  /\ lastOp' = Op("createTableInFolder", 0)
  /\ UNCHANGED << sidebarSearch, tablesPage, activeFolderId, isAddingRow, isProcessing, newRowValues,
                  editingRow, editRowValues, isMassUpdating, massUpdateFields,
                  timers, readers >>
  /\ now' = now + 1

\* the delete button of a folder card                  (src/src/App.tsx:1024)
deleteFolder(fid) ==
  /\ activeFolderId = NullId
  /\ HasFolder(folders, fid)
  /\ folders' = SelectSeq2(folders, {i \in 1..Len(folders) : folders[i].id # fid})
  /\ lastOp' = OpOn("deleteFolder", 0, fid, NullId)
  /\ UNCHANGED << searchVars, sidebarSearch, tablesPage, activeFolderId, activeTableId, activeFilters,
                  selectedRowIds, rowsPage, isAddingRow, isProcessing, newRowValues,
                  editingRow, editRowValues, isMassUpdating, massUpdateFields,
                  timers, readers, now >>

\* the Rename Folder dialog is confirmed; names are not part of the model
\* (src/src/App.tsx:1059)
renameFolder(renamingFolderId) ==
  /\ activeFolderId = NullId
  /\ HasFolder(folders, renamingFolderId)
  /\ folders' = [i \in 1..Len(folders) |->
                   IF folders[i].id = renamingFolderId
                   THEN [folders[i] EXCEPT !.updatedAt = now] ELSE folders[i]]
  /\ lastOp' = OpOn("renameFolder", 0, renamingFolderId, NullId)
  /\ UNCHANGED << searchVars, sidebarSearch, tablesPage, activeFolderId, activeTableId, activeFilters,
                  selectedRowIds, rowsPage, isAddingRow, isProcessing, newRowValues,
                  editingRow, editRowValues, isMassUpdating, massUpdateFields,
                  timers, readers >>
  /\ now' = now + 1

\* the delete button of a table card                  (src/src/App.tsx:1097)
deleteTable(tid) ==
  /\ activeFolderId # NullId /\ activeTableId = NullId
  /\ HasTable(folders, activeFolderId, tid)
  /\ folders' = [i \in 1..Len(folders) |->
                   IF folders[i].id = activeFolderId
                   THEN [folders[i] EXCEPT
                           !.tables = SelectSeq2(@, {j \in 1..Len(@) : @[j].id # tid})]
                   ELSE folders[i]]
  /\ lastOp' = OpOn("deleteTable", 0, activeFolderId, tid)
  /\ UNCHANGED << searchVars, sidebarSearch, tablesPage, activeFolderId, activeTableId, activeFilters,
                  selectedRowIds, rowsPage, isAddingRow, isProcessing, newRowValues,
                  editingRow, editRowValues, isMassUpdating, massUpdateFields,
                  timers, readers, now >>

\* the Rename Table dialog is confirmed; names are not part of the model
\* (src/src/App.tsx:1157)
renameTable(renamingTableId) ==
  /\ activeFolderId # NullId /\ activeTableId = NullId
  /\ HasTable(folders, activeFolderId, renamingTableId)
  /\ folders' = [i \in 1..Len(folders) |->
                   IF folders[i].id = activeFolderId
                   THEN [folders[i] EXCEPT
                           !.tables = [j \in 1..Len(@) |->
                                         IF @[j].id = renamingTableId
                                         THEN [@[j] EXCEPT !.updatedAt = now] ELSE @[j]]]
                   ELSE folders[i]]
  /\ lastOp' = OpOn("renameTable", 0, activeFolderId, renamingTableId)
  /\ UNCHANGED << searchVars, sidebarSearch, tablesPage, activeFolderId, activeTableId, activeFilters,
                  selectedRowIds, rowsPage, isAddingRow, isProcessing, newRowValues,
                  editingRow, editRowValues, isMassUpdating, massUpdateFields,
                  timers, readers >>
  /\ now' = now + 1

\* a table card is clicked, or the back button of the table view
\* (src/src/App.tsx:1088, 1178)
setActiveTableId(tid) ==
  /\ activeFolderId # NullId
  /\ noModal
  /\ tid # activeTableId
  /\ tid = NullId \/ (activeTableId = NullId /\ HasTable(folders, activeFolderId, tid))
  /\ activeTableId' = tid
  /\ tableChangeEffect(tid)
  /\ lastOp' = Op("setActiveTableId", 0)
  /\ UNCHANGED << sidebarSearch, tablesPage, folders, activeFolderId, isAddingRow, isProcessing, newRowValues,
                  editingRow, editRowValues, isMassUpdating, massUpdateFields,
                  timers, readers, now >>

(* --------------------------- column operations -------------------------- *)
\* New Field dialog, Add                              (src/src/App.tsx:1674)
addColumn(newColLabel) ==
  /\ canUseTable
  /\ Trim(newColLabel) # << >>
  /\ folders' = updateActiveTable(folders, activeFolderId, activeTableId,
        [kind |-> "addColumn",
         column |-> [id |-> MkId("col", now, NoSuffix), label |-> newColLabel]],
        now)
  /\ lastOp' = Op("addColumn", 0)
  /\ UNCHANGED << searchVars, sidebarSearch, tablesPage, activeFolderId, activeTableId, activeFilters,
                  selectedRowIds, rowsPage, isAddingRow, isProcessing, newRowValues,
                  editingRow, editRowValues, isMassUpdating, massUpdateFields,
                  timers, readers >>
  /\ now' = now + 1

\* a guard that lets every column be deleted
canDeleteColumn_always(t, colId) == TRUE

\* if (activeTable?.autoIdColumnId === colId) return;   (src/src/App.tsx:379)
canDeleteColumn(t, colId) == t.autoIdColumnId # colId

\* the Rename Column dialog is confirmed         (src/src/App.tsx:1536-1556)
renameColumn(renamingColId, newColLabel) ==
  /\ canUseTable
  /\ renamingColId \in ColIdSet(activeTable)
  /\ Trim(newColLabel) # << >>
  /\ activeTable.autoIdColumnId # renamingColId
  /\ folders' = updateActiveTable(folders, activeFolderId, activeTableId,
        [kind |-> "renameColumn", colId |-> renamingColId, label |-> newColLabel], now)
  /\ lastOp' = Op("renameColumn", 0)
  /\ UNCHANGED << searchVars, sidebarSearch, tablesPage, activeFolderId, activeTableId, activeFilters,
                  selectedRowIds, rowsPage, isAddingRow, isProcessing, newRowValues,
                  editingRow, editRowValues, isMassUpdating, massUpdateFields,
                  timers, readers >>
  /\ now' = now + 1

\* src/src/App.tsx:378-391
handleDeleteColumn(colId) ==
  /\ canUseTable
  /\ colId \in ColIdSet(activeTable)
  /\ canDeleteColumn(activeTable, colId)
  /\ folders' = updateActiveTable(folders, activeFolderId, activeTableId,
        [kind |-> "deleteColumn", colId |-> colId], now)
  /\ lastOp' = Op("handleDeleteColumn", 0)
  /\ UNCHANGED << searchVars, sidebarSearch, tablesPage, activeFolderId, activeTableId, activeFilters,
                  selectedRowIds, rowsPage, isAddingRow, isProcessing, newRowValues,
                  editingRow, editRowValues, isMassUpdating, massUpdateFields,
                  timers, readers >>
  /\ now' = now + 1

\* a column header is dragged onto another one      (src/src/App.tsx:971-1001)
handleColumnDrop(dragColId, targetColId) ==
  /\ canUseTable
  /\ dragColId \in ColIdSet(activeTable) /\ targetColId \in ColIdSet(activeTable)
  /\ activeTable.autoIdColumnId # dragColId
  /\ activeTable.autoIdColumnId # targetColId
  /\ dragColId # targetColId
  /\ folders' = updateActiveTable(folders, activeFolderId, activeTableId,
        [kind |-> "columnDrop", dragColId |-> dragColId,
         targetColId |-> targetColId], now)
  /\ lastOp' = Op("handleColumnDrop", 0)
  /\ UNCHANGED << searchVars, sidebarSearch, tablesPage, activeFolderId, activeTableId, activeFilters,
                  selectedRowIds, rowsPage, isAddingRow, isProcessing, newRowValues,
                  editingRow, editRowValues, isMassUpdating, massUpdateFields,
                  timers, readers >>
  /\ now' = now + 1

(* ---------------------------- row generation ---------------------------- *)
\* "+ Add Rows" / "Bulk Add"                          (src/src/App.tsx:1210)
openAddRow ==
  /\ canUseTable
  /\ newRowValues' = EmptyMap
  /\ isAddingRow' = TRUE
  /\ lastOp' = Op("openAddRow", 0)
  /\ UNCHANGED << searchVars, sidebarSearch, tablesPage, folders, activeFolderId, activeTableId, activeFilters,
                  selectedRowIds, rowsPage, isProcessing,
                  editingRow, editRowValues, isMassUpdating, massUpdateFields,
                  timers, readers, now >>

\* an input of the new-row dialog changes             (src/src/App.tsx:1608)
setNewRowValue(colId, text) ==
  /\ isAddingRow /\ hasActiveTable
  /\ colId \in ColIdSet(activeTable)
  /\ ~isIdField(activeTable, colId)
  /\ newRowValues' = Put(newRowValues, colId, text)
  /\ lastOp' = Op("setNewRowValue", 0)
  /\ UNCHANGED << searchVars, sidebarSearch, tablesPage, folders, activeFolderId, activeTableId, activeFilters,
                  selectedRowIds, rowsPage, isAddingRow, isProcessing,
                  editingRow, editRowValues, isMassUpdating, massUpdateFields,
                  timers, readers, now >>

\* Cancel of the new-row dialog                       (src/src/App.tsx:1619)
cancelAddRow ==
  /\ isAddingRow
  /\ isAddingRow' = FALSE
  /\ lastOp' = Op("cancelAddRow", 0)
  /\ UNCHANGED << searchVars, sidebarSearch, tablesPage, folders, activeFolderId, activeTableId, activeFilters,
                  selectedRowIds, rowsPage, isProcessing, newRowValues,
                  editingRow, editRowValues, isMassUpdating, massUpdateFields,
                  timers, readers, now >>

\* the disabled attribute of the Save button          (src/src/App.tsx:1620)
saveDisabled_validityOnly == ~isNewRowDataValid

saveDisabled == ~isNewRowDataValid \/ isProcessing

\* Save of the new-row dialog                  (src/src/App.tsx:405-482, 1620)
\* The dialog offers Save when the table has a column.  A request with
\* invalid input is rejected by the guard of line 406; a request while
\* isProcessing finds the button disabled.
handleAddRow ==
  /\ isAddingRow /\ hasActiveTable
  /\ Len(activeTable.columns) > 0
  /\ IF ~isNewRowDataValid
     THEN /\ lastOp' = Op("handleAddRow:rejected", 0)
          /\ UNCHANGED << searchVars, sidebarSearch, tablesPage, folders, activeFolderId, activeTableId, activeFilters,
                          selectedRowIds, rowsPage, isAddingRow, isProcessing,
                          newRowValues, editingRow, editRowValues, isMassUpdating,
                          massUpdateFields, timers, readers, now >>
     ELSE IF activeTable.type = "classic"
     THEN LET newRows == classicNewRows(activeTable, newRowValues, now)
          IN /\ ~saveDisabled
             /\ folders' = updateActiveTable(folders, activeFolderId, activeTableId,
                   [kind |-> "prependRows", rows |-> newRows], now)
             /\ newRowValues' = EmptyMap
             /\ isAddingRow' = FALSE
             /\ rowsPage' = 1
             /\ lastOp' = Op("handleAddRow:classic", Len(newRows))
             /\ UNCHANGED << searchVars, sidebarSearch, tablesPage, activeFolderId, activeTableId, activeFilters,
                             selectedRowIds, isProcessing, editingRow, editRowValues,
                             isMassUpdating, massUpdateFields, timers, readers >>
             /\ now' = now + 1
     ELSE /\ ~saveDisabled
          /\ isProcessing' = TRUE
          /\ timers' = Append(timers, [activeTable |-> activeTable,
                                       newRowValues |-> newRowValues,
                                       activeFolderId |-> activeFolderId,
                                       activeTableId |-> activeTableId])
          /\ lastOp' = Op("handleAddRow:pairwise", 0)
          /\ UNCHANGED << searchVars, sidebarSearch, tablesPage, folders, activeFolderId, activeTableId, activeFilters,
                          selectedRowIds, rowsPage, isAddingRow, newRowValues,
                          editingRow, editRowValues, isMassUpdating, massUpdateFields,
                          readers, now >>

\* a commit that goes to the table that is active when the timer fires
pairwiseTimeout_currentTable ==
  /\ timers # << >>
  /\ LET c == Head(timers)
         newRows == pairwiseNewRows(c.activeTable, c.newRowValues, now)
     IN /\ folders' = updateActiveTable(folders, activeFolderId, activeTableId,
              [kind |-> "prependRows", rows |-> newRows], now)
        /\ lastOp' = OpOn("pairwiseTimeout", Len(newRows), c.activeFolderId, c.activeTableId)
  /\ timers' = Tail(timers)
  /\ newRowValues' = EmptyMap
  /\ isAddingRow' = FALSE
  /\ isProcessing' = FALSE
  /\ rowsPage' = 1
  /\ UNCHANGED << searchVars, sidebarSearch, tablesPage, activeFolderId, activeTableId, activeFilters, selectedRowIds,
                  editingRow, editRowValues, isMassUpdating, massUpdateFields,
                  readers >>
  /\ now' = now + 1

\* the callback of setTimeout(..., 50)              (src/src/App.tsx:454-480)
pairwiseTimeout ==
  /\ timers # << >>
  /\ LET c == Head(timers)
         newRows == pairwiseNewRows(c.activeTable, c.newRowValues, now)
     IN /\ folders' = updateActiveTable(folders, c.activeFolderId, c.activeTableId,
              [kind |-> "prependRows", rows |-> newRows], now)
        /\ lastOp' = OpOn("pairwiseTimeout", Len(newRows), c.activeFolderId, c.activeTableId)
  /\ timers' = Tail(timers)
  /\ newRowValues' = EmptyMap
  /\ isAddingRow' = FALSE
  /\ isProcessing' = FALSE
  /\ rowsPage' = 1
  /\ UNCHANGED << searchVars, sidebarSearch, tablesPage, activeFolderId, activeTableId, activeFilters, selectedRowIds,
                  editingRow, editRowValues, isMassUpdating, massUpdateFields,
                  readers >>
  /\ now' = now + 1

(* ------------------------------ derived view ---------------------------- *)
\* String.prototype.includes
includes(s, q) ==
  \E i \in 0..(Len(s) - Len(q)) : SubSeq(s, i + 1, i + Len(q)) = q

\* a search that compares the cell text without lower-casing it
rowPasses_caseSensitive(row, search, filters) ==
  /\ \/ search = << >>
     \/ \E k \in DOMAIN row.values : includes(row.values[k], search)
  /\ \A i \in 1..Len(filters) :
       IF filters[i].mode = "exclude"
       THEN Get(row.values, filters[i].columnId) # filters[i].value
       ELSE Get(row.values, filters[i].columnId) = filters[i].value

\* the predicate of filteredRows                    (src/src/App.tsx:280-287)
rowPasses(row, search, filters) ==
  /\ \/ search = << >>
     \/ \E k \in DOMAIN row.values :
          includes(ToLowerCase(row.values[k]), ToLowerCase(search))
  /\ \A i \in 1..Len(filters) :
       IF filters[i].mode = "exclude"
       THEN Get(row.values, filters[i].columnId) # filters[i].value
       ELSE Get(row.values, filters[i].columnId) = filters[i].value

\* src/src/App.tsx:277-288
filteredRowsOf(t, search, filters) ==
  SelectSeq2(t.rows, {i \in 1..Len(t.rows) : rowPasses(t.rows[i], search, filters)})

filteredRows ==
  IF ~hasActiveTable THEN << >>
  ELSE filteredRowsOf(activeTable, deferredSearch, activeFilters)

\* Math.ceil(n / d) for a natural n and a positive d
Ceil(n, d) == (n + d - 1) \div d

\* filteredRows.slice((rowsPage-1)*ROWS_PER_PAGE, rowsPage*ROWS_PER_PAGE)
\* (src/src/App.tsx:290)
paginatedRows ==
  SubSeq(filteredRows, (rowsPage - 1) * ROWS_PER_PAGE + 1,
         IF rowsPage * ROWS_PER_PAGE < Len(filteredRows)
         THEN rowsPage * ROWS_PER_PAGE ELSE Len(filteredRows))

\* src/src/App.tsx:291
totalRowsPages == Ceil(Len(filteredRows), ROWS_PER_PAGE)

\* the buttons of PaginationControls: Last, a page of the picker, Next
\* (src/src/App.tsx:50-109); nothing is rendered for a total of at most 1
pageChoices(current, total) ==
  IF total <= 1 THEN {}
  ELSE (1..total) \cup (IF current # total THEN {current + 1} ELSE {})

\* the pagination of the rows                        (src/src/App.tsx:1447)
setRowsPage(p) ==
  /\ canUseTable
  /\ p \in pageChoices(rowsPage, totalRowsPages)
  /\ rowsPage' = p
  /\ lastOp' = Op("setRowsPage", p)
  /\ UNCHANGED << searchVars, sidebarSearch, tablesPage, folders, activeFolderId,
                  activeTableId, activeFilters, selectedRowIds, isAddingRow,
                  isProcessing, newRowValues, editingRow, editRowValues, isMassUpdating,
                  massUpdateFields, timers, readers, now >>

\* (activeFolder?.tables || []).slice((tablesPage-1)*TABLES_PER_PAGE,
\* TABLES_PER_PAGE * tablesPage)                     (src/src/App.tsx:274)
paginatedTables ==
  IF ~HasFolder(folders, activeFolderId) THEN << >>
  ELSE LET tables == FolderOf(folders, activeFolderId).tables
       IN SubSeq(tables, (tablesPage - 1) * TABLES_PER_PAGE + 1,
                 IF tablesPage * TABLES_PER_PAGE < Len(tables)
                 THEN tablesPage * TABLES_PER_PAGE ELSE Len(tables))

\* src/src/App.tsx:275
totalTablesPages ==
  IF HasFolder(folders, activeFolderId)
  THEN Ceil(Len(FolderOf(folders, activeFolderId).tables), TABLES_PER_PAGE)
  ELSE 0

\* the pages the PaginationControls under the table list offers: its total
\* is totalRowsPages                                (src/src/App.tsx:1106)
tablesPageChoices == pageChoices(tablesPage, totalRowsPages)

\* The property names an object literal inherits from Object.prototype, and
\* the accessor name __proto__: counts is created as {} (src/src/App.tsx:301)
ProtoAccessor == << "_", "_", "p", "r", "o", "t", "o", "_", "_" >>
ObjectPrototypeKeys ==
  {<< "c", "o", "n", "s", "t", "r", "u", "c", "t", "o", "r" >>,
   << "t", "o", "S", "t", "r", "i", "n", "g" >>,
   << "v", "a", "l", "u", "e", "O", "f" >>,
   << "t", "o", "L", "o", "c", "a", "l", "e", "S", "t", "r", "i", "n", "g" >>,
   << "h", "a", "s", "O", "w", "n", "P", "r", "o", "p", "e", "r", "t", "y" >>,
   << "i", "s", "P", "r", "o", "t", "o", "t", "y", "p", "e", "O", "f" >>,
   << "p", "r", "o", "p", "e", "r", "t", "y", "I", "s", "E", "n", "u", "m", "e", "r", "a", "b", "l", "e" >>,
   << "_", "_", "d", "e", "f", "i", "n", "e", "G", "e", "t", "t", "e", "r", "_", "_" >>,
   << "_", "_", "d", "e", "f", "i", "n", "e", "S", "e", "t", "t", "e", "r", "_", "_" >>,
   << "_", "_", "l", "o", "o", "k", "u", "p", "G", "e", "t", "t", "e", "r", "_", "_" >>,
   << "_", "_", "l", "o", "o", "k", "u", "p", "S", "e", "t", "t", "e", "r", "_", "_" >>,
   ProtoAccessor}

\* columnValueStats[c]: counts as a map from value to what the loop leaves
\* under it, and emptyCount (src/src/App.tsx:298-313).  counts[val] || 0 reads
\* an inherited property when val is a name of Object.prototype: the value
\* left is then the text of that property followed by n ones, not a number,
\* and an assignment to __proto__ creates no property at all.
columnValueStats(t, c) ==
  LET vals == {Get(t.rows[i].values, c) : i \in 1..Len(t.rows)} \ {<< >>}
  IN [counts |-> [v \in vals \ {ProtoAccessor} |->
                    [isNumber |-> v \notin ObjectPrototypeKeys,
                     n |-> Cardinality({i \in 1..Len(t.rows) : Get(t.rows[i].values, c) = v})]],
      emptyCount |-> Cardinality({i \in 1..Len(t.rows) :
                                    Get(t.rows[i].values, c) = << >>})]

\* typing in the search box; the deferred value follows in a later render
\* (src/src/App.tsx:202-203, 1189)
setSearchInput(text) ==
  /\ canUseTable
  /\ text # searchInput
  /\ searchInput' = text
  /\ lastOp' = Op("setSearchInput", 0)
  /\ UNCHANGED << deferredSearch, sidebarSearch, tablesPage, folders, activeFolderId, activeTableId,
                  activeFilters, selectedRowIds, rowsPage, isAddingRow, isProcessing,
                  newRowValues, editingRow, editRowValues, isMassUpdating,
                  massUpdateFields, timers, readers, now >>

\* the render in which useDeferredValue catches up      (src/src/App.tsx:203)
deferredRender ==
  /\ deferredSearch # searchInput
  /\ deferredSearch' = searchInput
  /\ lastOp' = Op("deferredRender", 0)
  /\ UNCHANGED << searchInput, sidebarSearch, tablesPage, folders, activeFolderId, activeTableId,
                  activeFilters, selectedRowIds, rowsPage, isAddingRow, isProcessing,
                  newRowValues, editingRow, editRowValues, isMassUpdating,
                  massUpdateFields, timers, readers, now >>

(* ------------------------------- sidebar -------------------------------- *)
\* expandedCols[col.id] ?? false                      (src/src/App.tsx:1275)
isExpanded(expanded, c) == c \in DOMAIN expanded /\ expanded[c]

\* Object.keys(columnValueStats[col.id]?.counts || {}) has a key that
\* contains the query                               (src/src/App.tsx:337-338)
hasMatchInValues(t, c, query) ==
  \E v \in DOMAIN columnValueStats(t, c).counts : includes(ToLowerCase(v), query)

\* an effect body that starts from an empty object instead of the spread
autoExpand_fromEmpty(expanded, search, t) ==
  LET query == ToLowerCase(search)
      matched == {c \in ColIdSet(t) : hasMatchInValues(t, c, query)}
  IN [c \in matched |-> TRUE]

\* the body of the auto-expand effect                (src/src/App.tsx:333-343)
autoExpand(expanded, search, t) ==
  LET query == ToLowerCase(search)
      matched == {c \in ColIdSet(t) : hasMatchInValues(t, c, query)}
  IN [c \in (DOMAIN expanded) \cup matched |->
        IF c \in matched THEN TRUE ELSE expanded[c]]

\* the dependencies of the auto-expand effect differ between two renders
autoExpandDepsChanged ==
  \/ sidebarSearch' # sidebarSearch
  \/ ~hasActiveTable
  \/ activeTable' # activeTable

\* useEffect(..., [sidebarSearch, activeTable, columnValueStats])
\* (src/src/App.tsx:331-344)
autoExpandEffect ==
  IF Trim(sidebarSearch') = << >> \/ ~hasActiveTable' THEN expandedCols' = expandedCols
  ELSE IF autoExpandDepsChanged
  THEN expandedCols' = autoExpand(expandedCols, sidebarSearch', activeTable')
  ELSE expandedCols' = expandedCols

\* a handler of the mounted application, followed by the storage effect
Mounted(handler) == uncaught = "none" /\ handler /\ persistenceEffect /\ UNCHANGED call

\* a handler of the mounted application, followed by the effects it triggers
Run(handler) == Mounted(handler) /\ autoExpandEffect

\* typing in the sidebar search box, or its clear button
\* (src/src/App.tsx:1261, 1265)
setSidebarSearch(text) ==
  /\ canUseTable
  /\ text # sidebarSearch
  /\ sidebarSearch' = text
  /\ lastOp' = Op("setSidebarSearch", 0)
  /\ UNCHANGED << searchVars, tablesPage, folders, activeFolderId, activeTableId,
                  activeFilters, selectedRowIds, rowsPage, isAddingRow, isProcessing,
                  newRowValues, editingRow, editRowValues, isMassUpdating,
                  massUpdateFields, timers, readers, now >>

\* visibleSidebarColumns                             (src/src/App.tsx:316-328)
visibleSidebarColumns ==
  IF ~hasActiveTable THEN {}
  ELSE IF Trim(sidebarSearch) = << >> THEN ColIdSet(activeTable)
  ELSE {activeTable.columns[i].id : i \in
          {i \in 1..Len(activeTable.columns) :
             \/ includes(ToLowerCase(activeTable.columns[i].label), ToLowerCase(sidebarSearch))
             \/ hasMatchInValues(activeTable, activeTable.columns[i].id,
                                 ToLowerCase(sidebarSearch))}}

\* the header of a sidebar column is clicked           (src/src/App.tsx:1285)
toggleExpanded(colId) ==
  /\ canUseTable
  /\ colId \in visibleSidebarColumns
  /\ expandedCols' = Put(expandedCols, colId, ~isExpanded(expandedCols, colId))
  /\ lastOp' = Op("toggleExpanded", 0)
  /\ UNCHANGED << searchVars, sidebarSearch, tablesPage, folders, activeFolderId,
                  activeTableId, activeFilters, selectedRowIds, rowsPage, isAddingRow,
                  isProcessing, newRowValues, editingRow, editRowValues, isMassUpdating,
                  massUpdateFields, timers, readers, now >>

(* ------------------------------- filters -------------------------------- *)
\* a search that looks at the last filter of the list only
hasFilter_lastOnly(filters, cid, val) ==
  /\ Len(filters) > 0
  /\ filters[Len(filters)].columnId = cid /\ filters[Len(filters)].value = val

\* prev.find(...) finds a filter for the pair  (src/src/App.tsx:957)
hasFilter(filters, cid, val) ==
  \E i \in 1..Len(filters) : filters[i].columnId = cid /\ filters[i].value = val

\* prev.find(f => f.columnId === cid && f.value === val)
findFilter(filters, cid, val) ==
  filters[CHOOSE i \in 1..Len(filters) :
            /\ filters[i].columnId = cid /\ filters[i].value = val
            /\ \A j \in 1..(i - 1) : ~(filters[j].columnId = cid /\ filters[j].value = val)]

\* a toggle with two states only: an include filter is removed at once
toggleFilterUpdate_twoState(prev, cid, val) ==
  IF ~hasFilter(prev, cid, val)
  THEN Append(prev, [columnId |-> cid, value |-> val, mode |-> "include"])
  ELSE SelectSeq2(prev, {i \in 1..Len(prev) :
                           ~(prev[i].columnId = cid /\ prev[i].value = val)})

\* the state update of toggleFilter                 (src/src/App.tsx:956-961)
toggleFilterUpdate(prev, cid, val) ==
  IF ~hasFilter(prev, cid, val)
  THEN Append(prev, [columnId |-> cid, value |-> val, mode |-> "include"])
  ELSE IF findFilter(prev, cid, val).mode = "include"
  THEN [i \in 1..Len(prev) |->
          IF prev[i].columnId = cid /\ prev[i].value = val
          THEN [prev[i] EXCEPT !.mode = "exclude"] ELSE prev[i]]
  ELSE SelectSeq2(prev, {i \in 1..Len(prev) :
                           ~(prev[i].columnId = cid /\ prev[i].value = val)})

\* a value of the sidebar is clicked        (src/src/App.tsx:955-963, 1335, 1354)
toggleFilter(cid, val) ==
  /\ canUseTable
  /\ cid \in ColIdSet(activeTable)
  /\ IF val = << >> THEN columnValueStats(activeTable, cid).emptyCount > 0
     ELSE val \in DOMAIN columnValueStats(activeTable, cid).counts
  /\ activeFilters' = toggleFilterUpdate(activeFilters, cid, val)
  /\ rowsPage' = 1
  /\ lastOp' = Op("toggleFilter", [columnId |-> cid, value |-> val])
  /\ UNCHANGED << searchVars, sidebarSearch, tablesPage, folders, activeFolderId, activeTableId,
                  selectedRowIds, isAddingRow, isProcessing, newRowValues,
                  editingRow, editRowValues, isMassUpdating, massUpdateFields,
                  timers, readers, now >>

\* the cross of a filter chip                   (src/src/App.tsx:965-967, 1395)
removeFilter(colId, val) ==
  /\ canUseTable
  /\ hasFilter(activeFilters, colId, val)
  /\ activeFilters' = SelectSeq2(activeFilters, {i \in 1..Len(activeFilters) :
                         ~(activeFilters[i].columnId = colId /\ activeFilters[i].value = val)})
  /\ lastOp' = Op("removeFilter", [columnId |-> colId, value |-> val])
  /\ UNCHANGED << searchVars, sidebarSearch, tablesPage, folders, activeFolderId, activeTableId,
                  selectedRowIds, rowsPage, isAddingRow, isProcessing, newRowValues,
                  editingRow, editRowValues, isMassUpdating, massUpdateFields,
                  timers, readers, now >>

\* Clear All                                          (src/src/App.tsx:1400)
clearAllFilters ==
  /\ canUseTable
  /\ Len(activeFilters) > 0
  /\ activeFilters' = << >>
  /\ lastOp' = Op("clearAllFilters", 0)
  /\ UNCHANGED << searchVars, sidebarSearch, tablesPage, folders, activeFolderId, activeTableId,
                  selectedRowIds, rowsPage, isAddingRow, isProcessing, newRowValues,
                  editingRow, editRowValues, isMassUpdating, massUpdateFields,
                  timers, readers, now >>

(* ------------------------- selection and editing ------------------------ *)
\* the checkbox of a displayed row                    (src/src/App.tsx:1438)
toggleSelect(id) ==
  /\ canUseTable
  /\ \E i \in 1..Len(filteredRows) : filteredRows[i].id = id
  /\ selectedRowIds' = IF id \in selectedRowIds THEN selectedRowIds \ {id}
                       ELSE selectedRowIds \cup {id}
  /\ lastOp' = Op("toggleSelect", 0)
  /\ UNCHANGED << searchVars, sidebarSearch, tablesPage, folders, activeFolderId, activeTableId, activeFilters,
                  rowsPage, isAddingRow, isProcessing, newRowValues,
                  editingRow, editRowValues, isMassUpdating, massUpdateFields,
                  timers, readers, now >>

\* the pencil of a displayed row                      (src/src/App.tsx:1439)
openEditRow(i) ==
  /\ canUseTable
  /\ i \in 1..Len(filteredRows)
  /\ editingRow' = filteredRows[i].id
  /\ editRowValues' = filteredRows[i].values
  /\ lastOp' = Op("openEditRow", 0)
  /\ UNCHANGED << searchVars, sidebarSearch, tablesPage, folders, activeFolderId, activeTableId, activeFilters,
                  selectedRowIds, rowsPage, isAddingRow, isProcessing, newRowValues,
                  isMassUpdating, massUpdateFields, timers, readers, now >>

\* an input of the Edit Record dialog changes         (src/src/App.tsx:1645)
setEditRowValue(colId, text) ==
  /\ editingRow # NullId /\ hasActiveTable
  /\ colId \in ColIdSet(activeTable)
  /\ ~isIdField(activeTable, colId)
  /\ editRowValues' = Put(editRowValues, colId, text)
  /\ lastOp' = Op("setEditRowValue", 0)
  /\ UNCHANGED << searchVars, sidebarSearch, tablesPage, folders, activeFolderId, activeTableId, activeFilters,
                  selectedRowIds, rowsPage, isAddingRow, isProcessing, newRowValues,
                  editingRow, isMassUpdating, massUpdateFields, timers, readers, now >>

\* Edit Record, Save                             (src/src/App.tsx:1654-1657)
saveEditRow ==
  /\ editingRow # NullId
  /\ folders' = updateActiveTable(folders, activeFolderId, activeTableId,
        [kind |-> "saveEdit", rowId |-> editingRow, values |-> editRowValues],
        now)
  /\ editingRow' = NullId
  /\ lastOp' = Op("saveEditRow", 0)
  /\ UNCHANGED << searchVars, sidebarSearch, tablesPage, activeFolderId, activeTableId, activeFilters,
                  selectedRowIds, rowsPage, isAddingRow, isProcessing, newRowValues,
                  editRowValues, isMassUpdating, massUpdateFields, timers, readers >>
  /\ now' = now + 1

\* Edit Record, Cancel                                (src/src/App.tsx:1653)
cancelEditRow ==
  /\ editingRow # NullId
  /\ editingRow' = NullId
  /\ lastOp' = Op("cancelEditRow", 0)
  /\ UNCHANGED << searchVars, sidebarSearch, tablesPage, folders, activeFolderId, activeTableId, activeFilters,
                  selectedRowIds, rowsPage, isAddingRow, isProcessing, newRowValues,
                  editRowValues, isMassUpdating, massUpdateFields, timers, readers, now >>

\* the initial massUpdateFields                       (src/src/App.tsx:1198-1199)
initialMassUpdateFields(t, filters) ==
  [c \in ColIdSet(t) |->
     LET hits == {i \in 1..Len(filters) : filters[i].columnId = c}
         f == filters[CHOOSE i \in hits : \A j \in hits : i <= j]
     IN IF hits # {} THEN [enabled |-> TRUE, value |-> f.value]
        ELSE [enabled |-> FALSE, value |-> << >>]]

\* the Bulk Edit button                          (src/src/App.tsx:1197-1201)
openBulkEdit ==
  /\ canUseTable
  /\ selectedRowIds # {}
  /\ massUpdateFields' = initialMassUpdateFields(activeTable, activeFilters)
  /\ isMassUpdating' = TRUE
  /\ lastOp' = Op("openBulkEdit", 0)
  /\ UNCHANGED << searchVars, sidebarSearch, tablesPage, folders, activeFolderId, activeTableId, activeFilters,
                  selectedRowIds, rowsPage, isAddingRow, isProcessing, newRowValues,
                  editingRow, editRowValues, timers, readers, now >>

\* the checkbox of a field of the Bulk Edit dialog    (src/src/App.tsx:1690)
toggleMassField(colId) ==
  /\ isMassUpdating /\ hasActiveTable
  /\ colId \in ColIdSet(activeTable)
  /\ ~isIdField(activeTable, colId)
  /\ massUpdateFields' =
       Put(massUpdateFields, colId,
           IF colId \in DOMAIN massUpdateFields
           THEN [massUpdateFields[colId] EXCEPT !.enabled = ~@]
           ELSE [enabled |-> TRUE, value |-> << >>])
  /\ lastOp' = Op("toggleMassField", 0)
  /\ UNCHANGED << searchVars, sidebarSearch, tablesPage, folders, activeFolderId, activeTableId, activeFilters,
                  selectedRowIds, rowsPage, isAddingRow, isProcessing, newRowValues,
                  editingRow, editRowValues, isMassUpdating, timers, readers, now >>

\* the input of an enabled field of the Bulk Edit dialog   (App.tsx:1691)
setMassFieldValue(colId, text) ==
  /\ isMassUpdating /\ hasActiveTable
  /\ colId \in ColIdSet(activeTable) /\ colId \in DOMAIN massUpdateFields
  /\ massUpdateFields[colId].enabled
  /\ ~isIdField(activeTable, colId)
  /\ massUpdateFields' = Put(massUpdateFields, colId,
                             [massUpdateFields[colId] EXCEPT !.value = text])
  /\ lastOp' = Op("setMassFieldValue", 0)
  /\ UNCHANGED << searchVars, sidebarSearch, tablesPage, folders, activeFolderId, activeTableId, activeFilters,
                  selectedRowIds, rowsPage, isAddingRow, isProcessing, newRowValues,
                  editingRow, editRowValues, isMassUpdating, timers, readers, now >>

\* Bulk Edit, Apply                              (src/src/App.tsx:1698-1711)
applyBulkEdit ==
  /\ isMassUpdating
  /\ folders' = updateActiveTable(folders, activeFolderId, activeTableId,
        [kind |-> "bulkEdit", fields |-> massUpdateFields,
         selected |-> selectedRowIds], now)
  /\ isMassUpdating' = FALSE
  /\ selectedRowIds' = {}
  /\ lastOp' = Op("applyBulkEdit", 0)
  /\ UNCHANGED << searchVars, sidebarSearch, tablesPage, activeFolderId, activeTableId, activeFilters,
                  rowsPage, isAddingRow, isProcessing, newRowValues,
                  editingRow, editRowValues, massUpdateFields, timers, readers >>
  /\ now' = now + 1

\* Bulk Edit, Discard                                 (src/src/App.tsx:1697)
discardBulkEdit ==
  /\ isMassUpdating
  /\ isMassUpdating' = FALSE
  /\ lastOp' = Op("discardBulkEdit", 0)
  /\ UNCHANGED << searchVars, sidebarSearch, tablesPage, folders, activeFolderId, activeTableId, activeFilters,
                  selectedRowIds, rowsPage, isAddingRow, isProcessing, newRowValues,
                  editingRow, editRowValues, massUpdateFields, timers, readers, now >>

\* Delete of the selected rows                        (src/src/App.tsx:1202)
deleteSelected ==
  /\ canUseTable
  /\ selectedRowIds # {}
  /\ folders' = updateActiveTable(folders, activeFolderId, activeTableId,
        [kind |-> "deleteRows", ids |-> selectedRowIds],
        now)
  /\ selectedRowIds' = {}
  /\ lastOp' = Op("deleteSelected", 0)
  /\ UNCHANGED << searchVars, sidebarSearch, tablesPage, activeFolderId, activeTableId, activeFilters,
                  rowsPage, isAddingRow, isProcessing, newRowValues,
                  editingRow, editRowValues, isMassUpdating, massUpdateFields,
                  timers, readers >>
  /\ now' = now + 1

\* the bin of a displayed row                         (src/src/App.tsx:1440)
deleteRow(id) ==
  /\ canUseTable
  /\ \E i \in 1..Len(filteredRows) : filteredRows[i].id = id
  /\ folders' = updateActiveTable(folders, activeFolderId, activeTableId,
        [kind |-> "deleteRows", ids |-> {id}],
        now)
  /\ lastOp' = Op("deleteRow", 0)
  /\ UNCHANGED << searchVars, sidebarSearch, tablesPage, activeFolderId, activeTableId, activeFilters,
                  selectedRowIds, rowsPage, isAddingRow, isProcessing, newRowValues,
                  editingRow, editRowValues, isMassUpdating, massUpdateFields,
                  timers, readers >>
  /\ now' = now + 1

(* -------------------------------- imports ------------------------------- *)
\* Paste JSON, Import                             (src/src/App.tsx:572-720)
handlePasteJSON(p) ==
  /\ canUseTable
  /\ LET plan == jsonImport(JsonPayloads[p], activeTable, now)
     IN IF plan.outcome = "fail"
        THEN /\ lastOp' = Op("handlePasteJSON:failed", p)
             /\ UNCHANGED folders
        ELSE /\ folders' = updateActiveTable(folders, activeFolderId, activeTableId,
                   [kind |-> "json", plan |-> plan], now)
             /\ lastOp' = Op("handlePasteJSON:" \o plan.outcome, p)
  /\ UNCHANGED << searchVars, sidebarSearch, tablesPage, activeFolderId, activeTableId, activeFilters,
                  selectedRowIds, rowsPage, isAddingRow, isProcessing, newRowValues,
                  editingRow, editRowValues, isMassUpdating, massUpdateFields,
                  timers, readers >>
  /\ now' = now + 1

\* a JSON file is chosen: reader.readAsText(file) (src/src/App.tsx:722-725, 879)
handleImportJSON(p) ==
  /\ canUseTable
  /\ readers' = Append(readers, [kind |-> "json", file |-> p,
                                 activeTable |-> activeTable,
                                 activeFolderId |-> activeFolderId,
                                 activeTableId |-> activeTableId])
  /\ lastOp' = Op("handleImportJSON", p)
  /\ UNCHANGED << searchVars, sidebarSearch, tablesPage, folders, activeFolderId, activeTableId, activeFilters,
                  selectedRowIds, rowsPage, isAddingRow, isProcessing, newRowValues,
                  editingRow, editRowValues, isMassUpdating, massUpdateFields,
                  timers, now >>

\* a CSV file is chosen: reader.readAsText(file)  (src/src/App.tsx:882-885, 952)
handleImportCSV(p) ==
  /\ canUseTable
  /\ readers' = Append(readers, [kind |-> "csv", file |-> p,
                                 activeTable |-> activeTable,
                                 activeFolderId |-> activeFolderId,
                                 activeTableId |-> activeTableId])
  /\ lastOp' = Op("handleImportCSV", p)
  /\ UNCHANGED << searchVars, sidebarSearch, tablesPage, folders, activeFolderId, activeTableId, activeFilters,
                  selectedRowIds, rowsPage, isAddingRow, isProcessing, newRowValues,
                  editingRow, editRowValues, isMassUpdating, massUpdateFields,
                  timers, now >>

\* reader.onload of a pending file read    (src/src/App.tsx:726-878, 886-951)
readerOnload(k) ==
  /\ k \in 1..Len(readers)
  /\ LET r == readers[k] IN
       IF r.kind = "json"
       THEN LET plan == jsonImport(JsonPayloads[r.file], r.activeTable, now)
            IN IF plan.outcome = "fail"
               THEN /\ lastOp' = OpOn("handleImportJSON:failed", r.file, r.activeFolderId, r.activeTableId)
                    /\ UNCHANGED folders
               ELSE /\ folders' = updateActiveTable(folders, r.activeFolderId,
                          r.activeTableId, [kind |-> "json", plan |-> plan], now)
                    /\ lastOp' = OpOn("handleImportJSON:" \o plan.outcome, r.file,
                                       r.activeFolderId, r.activeTableId)
       ELSE LET rows == parseCSV(CsvFiles[r.file])
            IN IF Len(rows) < 2
               THEN /\ lastOp' = OpOn("handleImportCSV:failed", r.file, r.activeFolderId, r.activeTableId)
                    /\ UNCHANGED folders
               ELSE /\ folders' = updateActiveTable(folders, r.activeFolderId,
                          r.activeTableId,
                          [kind |-> "csv", snap |-> r.activeTable,
                           rows |-> rows, clock |-> now], now)
                    /\ lastOp' = OpOn("handleImportCSV:done", r.file,
                                       r.activeFolderId, r.activeTableId)
  /\ readers' = SubSeq(readers, 1, k - 1) \o SubSeq(readers, k + 1, Len(readers))
  /\ UNCHANGED << searchVars, sidebarSearch, tablesPage, activeFolderId, activeTableId, activeFilters,
                  selectedRowIds, rowsPage, isAddingRow, isProcessing, newRowValues,
                  editingRow, editRowValues, isMassUpdating, massUpdateFields,
                  timers >>
  /\ now' = now + 1

(* --------------------------- stored collections ------------------------- *)
\* Collections an earlier session has written to localStorage.  Their ids
\* carry clock value 0.
IdCol0 == MkId("col", 0, IdSuffix)
ColA0 == MkId("col", 0, 0)

StoredTable(type, auto, columns, rows) ==
  [id |-> TableIdAt(0), type |-> type, columns |-> columns, rows |-> rows,
   autoIdEnabled |-> auto, autoIdColumnId |-> IF auto THEN IdCol0 ELSE NullId,
   updatedAt |-> 0]

StoredFolder(tables) == << [id |-> FolderIdAt(0), tables |-> tables, updatedAt |-> 0] >>

ColumnsA == << [id |-> ColA0, label |-> << "a" >>] >>
ColumnsIdA == << [id |-> IdCol0, label |-> LabelID], [id |-> ColA0, label |-> << "a" >>] >>

\* two rows made by one classic generation of "x/y" at clock 0
RowsIdA ==
  << [id |-> RowIdAt(0, 0), values |-> Put(Put(EmptyMap, ColA0, << "x" >>), IdCol0, << "1" >>)],
     [id |-> RowIdAt(0, 1), values |-> Put(Put(EmptyMap, ColA0, << "y" >>), IdCol0, << "2" >>)] >>
RowsA ==
  << [id |-> RowIdAt(0, 0), values |-> Put(EmptyMap, ColA0, << "x" >>)],
     [id |-> RowIdAt(0, 1), values |-> Put(EmptyMap, ColA0, << "y" >>)] >>

StoredCollections ==
  << StoredFolder(<< StoredTable("classic", TRUE, ColumnsIdA, RowsIdA) >>),
     StoredFolder(<< StoredTable("pairwise", FALSE, ColumnsA, RowsA) >>),
     StoredFolder(<< StoredTable("classic", FALSE, << >>, << >>) >>),
     StoredFolder(<< StoredTable("pairwise", TRUE, ColumnsIdA, << >>) >>) >>

\* Collections for the new-row dialog: identifier cells 7, bad, absent, 3 in
\* a classic table; identifier cells 2, 10 in a pairwise table; a pairwise
\* table without columns; a classic table without identifier column.
ColB0 == MkId("col", 0, 1)
StoredGenCollections ==
  LET columnsAB == << [id |-> ColA0, label |-> << "a" >>], [id |-> ColB0, label |-> << "b" >>] >>
      columnsIdAB == << [id |-> IdCol0, label |-> LabelID] >> \o columnsAB
      ab(a, b) == Put(Put(EmptyMap, ColA0, a), ColB0, b)
      row(i, values) == [id |-> RowIdAt(0, i), values |-> values]
  IN << StoredFolder(<< StoredTable("classic", TRUE, columnsIdAB,
                          << row(0, Put(ab(<< "x" >>, << >>), IdCol0, << "7" >>)),
                             row(1, Put(ab(<< "y" >>, << >>), IdCol0, << "b", "a", "d" >>)),
                             row(2, ab(<< >>, << "x" >>)),
                             row(3, Put(ab(<< >>, << "y" >>), IdCol0, << "3" >>)) >>) >>),
        StoredFolder(<< StoredTable("pairwise", TRUE, columnsIdAB,
                          << row(0, Put(ab(<< "x" >>, << >>), IdCol0, << "2" >>)),
                             row(1, Put(ab(<< "y" >>, << >>), IdCol0, << "1", "0" >>)) >>) >>),
        StoredFolder(<< StoredTable("pairwise", FALSE, << >>, << >>) >>),
        StoredFolder(<< StoredTable("classic", FALSE, columnsAB,
                          << row(0, ab(<< "x" >>, << >>)), row(1, ab(<< "y" >>, << >>)) >>) >>) >>

(* --------------------------- the specification -------------------------- *)
\* the column ids and displayed values the user can point at
activeColIds == IF hasActiveTable THEN ColIdSet(activeTable) ELSE {}
activeRowIds ==
  IF hasActiveTable THEN {activeTable.rows[i].id : i \in 1..Len(activeTable.rows)} ELSE {}
activeValues(c) ==
  IF hasActiveTable
  THEN {Get(activeTable.rows[i].values, c) : i \in 1..Len(activeTable.rows)}
  ELSE {}

\* the bounds of the model: an operation is explored only when the table
\* stays within MaxRows rows and MaxCols columns
clockFits == now < MaxClock
rowsFit(n) == hasActiveTable /\ Len(activeTable.rows) + n <= MaxRows
colsFit(n) == hasActiveTable /\ Len(activeTable.columns) + n <= MaxCols

saveFits ==
  isAddingRow /\ hasActiveTable /\
  (isNewRowDataValid =>
     IF activeTable.type = "classic"
     THEN rowsFit(Len(classicNewRows(activeTable, newRowValues, now)))
     ELSE rowsFit(Len(pairwiseNewRows(activeTable, newRowValues, now))))

jsonFits(p) ==
  canUseTable /\
  LET plan == jsonImport(JsonPayloads[p], activeTable, now)
  IN plan.outcome # "fail" =>
       /\ rowsFit(Len(plan.rows))
       /\ Len(jsonUpdater(activeTable, plan).columns) <= MaxCols

csvFits(p) ==
  canUseTable /\
  LET rows == parseCSV(CsvFiles[p])
  IN Len(rows) >= 2 =>
       /\ rowsFit(Len(csvDataRows(rows)))
       /\ Len(csvUpdater(activeTable, activeTable, rows, now).columns) <= MaxCols

Init == \E s \in 1..Len(StoredCollections) : InitWith(StoredCollections[s])

Navigate ==
  \/ Run(\E f \in 1..Len(folders) : setActiveFolderId(folders[f].id))
  \/ Run(\E f \in 1..Len(folders) : \E i \in 1..Len(folders[f].tables) :
           setActiveTableId(folders[f].tables[i].id))

\* the back buttons of the table view and of the table list
Back ==
  \/ Run(setActiveTableId(NullId))
  \/ Run(setActiveFolderId(NullId))

Next ==
  \/ Navigate
  \/ Run(\E l \in 1..Len(Labels) : clockFits /\ colsFit(1) /\ addColumn(Labels[l]))
  \/ Run(\E c \in activeColIds : clockFits /\ handleDeleteColumn(c))
  \/ Run(\E c \in activeColIds : \E d \in activeColIds : clockFits /\ handleColumnDrop(c, d))
  \/ Run(openAddRow)
  \/ Run(\E c \in activeColIds : \E x \in 1..Len(NewRowTexts) : setNewRowValue(c, NewRowTexts[x]))
  \/ Run(cancelAddRow)
  \/ Run(clockFits /\ saveFits /\ handleAddRow)
  \/ Run(clockFits /\ pairwiseTimeout)
  \/ Run(\E p \in 1..Len(JsonPayloads) : clockFits /\ jsonFits(p) /\ handlePasteJSON(p))
  \/ Run(\E p \in 1..Len(JsonPayloads) :
           Len(readers) < MaxReaders /\ jsonFits(p) /\ handleImportJSON(p))
  \/ Run(\E p \in 1..Len(CsvTexts) :
           Len(readers) < MaxReaders /\ csvFits(p) /\ handleImportCSV(p))
  \/ Run(\E k \in 1..Len(readers) : clockFits /\ readerOnload(k))

Spec == Init /\ [][Next]_vars

\* Imports only: the user opens a stored table and pastes JSON or picks
\* JSON and CSV files, whose reads complete later.
NextImport ==
  \/ Navigate
  \/ Run(\E p \in 1..Len(JsonPayloads) : clockFits /\ jsonFits(p) /\ handlePasteJSON(p))
  \/ Run(\E p \in 1..Len(JsonPayloads) :
           Len(readers) < MaxReaders /\ jsonFits(p) /\ handleImportJSON(p))
  \/ Run(\E p \in 1..Len(CsvTexts) :
           Len(readers) < MaxReaders /\ csvFits(p) /\ handleImportCSV(p))
  \/ Run(\E k \in 1..Len(readers) : clockFits /\ readerOnload(k))

SpecImport == Init /\ [][NextImport]_vars

\* The new-row dialog: the user opens a stored table, optionally pastes the
\* JSON of a file whose column ids are "2" and "1", fills the dialog and
\* saves; a deferred pairwise generation completes later.
IntIdPayload == Len(JsonPayloads)
genFits == isAddingRow /\ hasActiveTable /\ Len(activeTable.rows) <= MaxRows

InitGen == \E s \in 1..Len(StoredGenCollections) : InitWith(StoredGenCollections[s])

NextGen ==
  \/ Navigate
  \/ Run(clockFits /\ colsFit(2) /\ handlePasteJSON(IntIdPayload))
  \/ Run(openAddRow)
  \/ Run(\E c \in activeColIds : \E x \in 1..Len(NewRowTexts) : setNewRowValue(c, NewRowTexts[x]))
  \/ Run(cancelAddRow)
  \/ Run(clockFits /\ genFits /\ handleAddRow)
  \/ Run(clockFits /\ pairwiseTimeout)

SpecGen == InitGen /\ [][NextGen]_vars

\* Editing: the user opens a stored table, filters by sidebar values,
\* selects rows, and uses the Edit Record and Bulk Edit dialogs; at most
\* MaxEdits saves are explored, under at most MaxFilters filters.
MaxFilters == 1
MaxEdits == 1
editsFit == now <= MaxEdits
filtersFit(c, v) == Len(toggleFilterUpdate(activeFilters, c, v)) <= MaxFilters

NextEdit ==
  \/ Navigate
  \/ Run(\E c \in activeColIds : \E v \in activeValues(c) : filtersFit(c, v) /\ toggleFilter(c, v))
  \/ Run(\E id \in activeRowIds : toggleSelect(id))
  \/ Run(\E i \in 1..Len(filteredRows) : openEditRow(i))
  \/ Run(\E c \in activeColIds : \E x \in 1..Len(CellTexts) : setEditRowValue(c, CellTexts[x]))
  \/ Run(editsFit /\ saveEditRow)
  \/ Run(cancelEditRow)
  \/ Run(openBulkEdit)
  \/ Run(\E c \in activeColIds : toggleMassField(c))
  \/ Run(\E c \in activeColIds : \E x \in 1..Len(CellTexts) : setMassFieldValue(c, CellTexts[x]))
  \/ Run(editsFit /\ applyBulkEdit)
  \/ Run(discardBulkEdit)

SpecEdit == Init /\ [][NextEdit]_vars

\* Adding rows: the imports together with the new-row dialog, in which the
\* user types "x/ /y "; at most MaxAdds operations that add rows are explored.
MaxAdds == 1
addsFit == now <= MaxAdds

NextRows ==
  \/ Navigate
  \/ Run(\E p \in 1..Len(JsonPayloads) : addsFit /\ jsonFits(p) /\ handlePasteJSON(p))
  \/ Run(\E p \in 1..Len(JsonPayloads) :
           Len(readers) < MaxReaders /\ jsonFits(p) /\ handleImportJSON(p))
  \/ Run(\E p \in 1..Len(CsvTexts) :
           Len(readers) < MaxReaders /\ csvFits(p) /\ handleImportCSV(p))
  \/ Run(\E k \in 1..Len(readers) : addsFit /\ readerOnload(k))
  \/ Run(openAddRow)
  \/ Run(\E c \in activeColIds : setNewRowValue(c, NewRowTexts[2]))
  \/ Run(cancelAddRow)
  \/ Run(addsFit /\ genFits /\ handleAddRow)
  \/ Run(addsFit /\ pairwiseTimeout)

SpecRows == Init /\ [][NextRows]_vars

\* A collection of two folders written at clocks -1 and 0: the newer folder
\* holds a table with an identifier column and an older table with columns
\* a and b, the older folder one table without rows.
StoredAt(clock, x) == [x EXCEPT !.id.t = clock, !.updatedAt = clock]
StoredTwoFolders ==
  << [StoredFolder(<< StoredTable("classic", TRUE, ColumnsIdA, RowsIdA),
                      StoredAt(0 - 1, StoredGenCollections[4][1].tables[1]) >>)[1]
        EXCEPT !.updatedAt = 0],
     StoredAt(0 - 1, StoredFolder(
        << StoredAt(0 - 2, StoredTable("classic", TRUE, ColumnsIdA, << >>)) >>)[1]) >>

\* Folders and tables: the user creates, renames and deletes folders and
\* tables, changes the columns and rows of a table, and picks JSON files
\* whose reads complete later; at most MaxEdits operations that read the
\* clock are explored.
foldersFit == Len(folders) <= MaxFolders + 1
tablesFit == HasFolder(folders, activeFolderId)
               /\ Len(FolderOf(folders, activeFolderId).tables) <= MaxTables + 1

InitTables == InitWith(StoredTwoFolders)

NextTables ==
  \/ Navigate
  \/ Back
  \/ Run(editsFit /\ foldersFit /\ createFolder)
  \/ Run(\E auto \in BOOLEAN : editsFit /\ tablesFit /\ createTableInFolder("classic", auto))
  \/ Run(\E f \in 1..Len(folders) : deleteFolder(folders[f].id))
  \/ Run(\E f \in 1..Len(folders) : editsFit /\ renameFolder(folders[f].id))
  \/ Run(\E f \in 1..Len(folders) : \E i \in 1..Len(folders[f].tables) :
           deleteTable(folders[f].tables[i].id))
  \/ Run(\E f \in 1..Len(folders) : \E i \in 1..Len(folders[f].tables) :
           editsFit /\ renameTable(folders[f].tables[i].id))
  \/ Run(editsFit /\ colsFit(1) /\ addColumn(Labels[3]))
  \/ Run(\E c \in activeColIds : editsFit /\ renameColumn(c, Labels[3]))
  \/ Run(\E c \in activeColIds : editsFit /\ handleDeleteColumn(c))
  \/ Run(\E c \in activeColIds : \E d \in activeColIds : editsFit /\ handleColumnDrop(c, d))
  \/ Run(\E id \in activeRowIds : editsFit /\ deleteRow(id))
  \/ Run(\E p \in {5, 7} :
           Len(readers) < MaxReaders /\ jsonFits(p) /\ handleImportJSON(p))
  \/ Run(\E k \in 1..Len(readers) : editsFit /\ readerOnload(k))

SpecTables == InitTables /\ [][NextTables]_vars

\* Storage: the program starts with any of StartItems in a localStorage whose
\* getItem or setItem may throw; the user creates, renames and deletes folders
\* and tables, and the storage may fill up at any time.
StartItems ==
  << [kind |-> "null", value |-> << >>], [kind |-> "empty", value |-> << >>],
     [kind |-> "corrupt", value |-> << >>], JsonItem(StoredCollections[1]),
     JsonItem(StoredTwoFolders) >>

\* the quota of the origin is used up: setItem throws from now on
storageFills ==
  /\ ~localStorage.setThrows
  /\ localStorage' = [localStorage EXCEPT !.setThrows = TRUE]
  /\ lastOp' = Op("storageFills", 0)
  /\ UNCHANGED << searchVars, sideVars, tablesPage, folders, activeFolderId, activeTableId,
                  activeFilters, selectedRowIds, rowsPage, isAddingRow, isProcessing,
                  newRowValues, editingRow, editRowValues, isMassUpdating,
                  massUpdateFields, timers, readers, now, uncaught, call >>

InitStorage ==
  \E i \in 1..Len(StartItems) : \E getThrows \in BOOLEAN : \E setThrows \in BOOLEAN :
    InitState(Storage(StartItems[i], getThrows, setThrows))

NextStorage ==
  \/ Navigate
  \/ Back
  \/ storageFills
  \/ Run(clockFits /\ foldersFit /\ createFolder)
  \/ Run(\E auto \in BOOLEAN : clockFits /\ tablesFit /\ createTableInFolder("classic", auto))
  \/ Run(\E f \in 1..Len(folders) : deleteFolder(folders[f].id))
  \/ Run(\E f \in 1..Len(folders) : clockFits /\ renameFolder(folders[f].id))
  \/ Run(\E f \in 1..Len(folders) : \E i \in 1..Len(folders[f].tables) :
           deleteTable(folders[f].tables[i].id))
  \/ Run(\E f \in 1..Len(folders) : \E i \in 1..Len(folders[f].tables) :
           clockFits /\ renameTable(folders[f].tables[i].id))

SpecStorage == InitStorage /\ [][NextStorage]_vars

\* Statistics: the user opens a stored table, edits cells, one of them to
\* the word constructor, searches and filters.
StatTexts == << << "x" >>, << "c", "o", "n", "s", "t", "r", "u", "c", "t", "o", "r" >> >>

NextStats ==
  \/ Navigate
  \/ Run(\E c \in activeColIds : \E v \in activeValues(c) : filtersFit(c, v) /\ toggleFilter(c, v))
  \/ Run(clearAllFilters)
  \/ Run(setSearchInput(<< "x" >>))
  \/ Run(deferredRender)
  \/ Run(\E i \in 1..Len(filteredRows) : openEditRow(i))
  \/ Run(\E c \in activeColIds : \E x \in 1..Len(StatTexts) : setEditRowValue(c, StatTexts[x]))
  \/ Run(editsFit /\ saveEditRow)
  \/ Run(cancelEditRow)
  \/ Run(\E id \in activeRowIds : editsFit /\ deleteRow(id))

SpecStats == Init /\ [][NextStats]_vars

\* The CSV utilities: stringifyCSV is applied to a grid of at most
\* MaxGridRows rows of at most MaxGridCols cells of at most MaxCellLen
\* characters, or of a blank or a carriage return, and parseCSV to its result.
MaxGridRows == 2
MaxGridCols == 2
MaxCellLen == 1

\* the sequences of at most n elements of S
SeqsUpTo(S, n) == UNION {[1..k -> S] : k \in 0..n}

GridCells == SeqsUpTo({"a", ",", "\"", "\n"}, MaxCellLen) \cup {<< " " >>, << "\r" >>}
Grids == SeqsUpTo(SeqsUpTo(GridCells, MaxGridCols), MaxGridRows)

callParseStringify(g) ==
  /\ call' = [fn |-> "parseCSV(stringifyCSV)", input |-> g,
               output |-> parseCSV(stringifyCSV(g))]
  /\ UNCHANGED << folders, activeFolderId, activeTableId, activeFilters, selectedRowIds,
                  rowsPage, isAddingRow, isProcessing, newRowValues, editingRow,
                  editRowValues, isMassUpdating, massUpdateFields, timers, readers, now,
                  lastOp, searchVars, sideVars, tablesPage, localStorage, uncaught >>

NextCsv == call.fn = "none" /\ \E g \in Grids : callParseStringify(g)

SpecCsv == InitWith(<< >>) /\ [][NextCsv]_vars

\* validateSegments is applied to at most MaxSegments of SegmentTexts joined
\* by '/': the empty text, a short one, one to be trimmed, and segments of
\* 50 and 51 characters and of 50 characters after a blank.
MaxSegments == 3
SegmentTexts ==
  {<< >>, << "x" >>, << " ", "y", " " >>, Tail(LongSegment), LongSegment, EdgeSegment}

callValidateSegments(segments) ==
  /\ call' = [fn |-> "validateSegments", input |-> segments,
               output |-> validateSegments(JoinWith(segments, << "/" >>))]
  /\ UNCHANGED << folders, activeFolderId, activeTableId, activeFilters, selectedRowIds,
                  rowsPage, isAddingRow, isProcessing, newRowValues, editingRow,
                  editRowValues, isMassUpdating, massUpdateFields, timers, readers, now,
                  lastOp, searchVars, sideVars, tablesPage, localStorage, uncaught >>

NextSegments ==
  call.fn = "none" /\ \E segments \in SeqsUpTo(SegmentTexts, MaxSegments) \ {<< >>} :
    callValidateSegments(segments)

SpecSegments == InitWith(<< >>) /\ [][NextSegments]_vars

\* Filtering: the user opens a stored table, toggles sidebar values, removes
\* filter chips, clears all filters and goes back to the table list.
NextFilter ==
  \/ Navigate
  \/ Back
  \/ Run(\E c \in activeColIds : \E v \in activeValues(c) : toggleFilter(c, v))
  \/ Run(\E i \in 1..Len(activeFilters) :
           removeFilter(activeFilters[i].columnId, activeFilters[i].value))
  \/ Run(clearAllFilters)

SpecFilter == Init /\ [][NextFilter]_vars

\* Searching and filtering: a stored table whose cells differ in case and
\* are absent in places; the user types in the search box, the deferred
\* value catches up later, and sidebar values and Empty are toggled.
StoredSearchTable ==
  LET ab(a, b) == Put(Put(EmptyMap, ColA0, a), ColB0, b)
      row(i, values) == [id |-> RowIdAt(0, i), values |-> values]
  IN StoredFolder(<< StoredTable("classic", FALSE,
        << [id |-> ColA0, label |-> << "a" >>], [id |-> ColB0, label |-> << "b" >>] >>,
        << row(0, Put(EmptyMap, ColA0, << "X", "y" >>)),
           row(1, ab(<< "y" >>, << "x" >>)),
           row(2, Put(EmptyMap, ColB0, << "x", "Y" >>)),
           row(3, ab(<< "x" >>, << >>)) >>) >>)

SearchTexts == << << "x" >>, << "X", "Y" >>, << "y", "x" >> >>

NextSearch ==
  \/ Navigate
  \/ Back
  \/ Run(\E x \in 1..Len(SearchTexts) : setSearchInput(SearchTexts[x]))
  \/ Run(setSearchInput(<< >>))
  \/ Run(deferredRender)
  \/ Run(\E c \in activeColIds : \E v \in activeValues(c) :
           Len(activeFilters) <= MaxFilters /\ toggleFilter(c, v))
  \/ Run(\E i \in 1..Len(activeFilters) :
           removeFilter(activeFilters[i].columnId, activeFilters[i].value))
  \/ Run(clearAllFilters)

SpecSearch == InitWith(StoredSearchTable) /\ [][NextSearch]_vars

\* The sidebar: a stored table with a cell text that holds a blank; the
\* user types in the sidebar search box, clears it, clicks column headers,
\* leaves and reopens the table, and deletes rows.
StoredSidebarTable ==
  LET row(i, values) == [id |-> RowIdAt(0, i), values |-> values]
  IN StoredFolder(<< StoredTable("classic", FALSE,
        << [id |-> ColA0, label |-> << "a" >>], [id |-> ColB0, label |-> << "b" >>] >>,
        << row(0, Put(EmptyMap, ColA0, << "N", " ", "y" >>)),
           row(1, Put(Put(EmptyMap, ColA0, << "n" >>), ColB0, << "Y" >>)) >>) >>)

SidebarTexts == << << " " >>, << "n", " " >>, << "y" >>, << "x" >> >>

NextSidebar ==
  \/ Navigate
  \/ Back
  \/ Run(\E x \in 1..Len(SidebarTexts) : setSidebarSearch(SidebarTexts[x]))
  \/ Run(setSidebarSearch(<< >>))
  \/ Mounted(\E c \in activeColIds : toggleExpanded(c))
  \/ Run(\E id \in activeRowIds : editsFit /\ deleteRow(id))

SpecSidebar == InitWith(StoredSidebarTable) /\ [][NextSidebar]_vars

\* CSV import: the user opens a stored table, picks CSV files whose reads
\* complete later, and adds or deletes columns in between.
NextCsvImport ==
  \/ Navigate
  \/ Run(\E p \in 1..Len(CsvFiles) :
           Len(readers) < MaxReaders /\ csvFits(p) /\ handleImportCSV(p))
  \/ Run(\E k \in 1..Len(readers) : clockFits /\ readerOnload(k))
  \/ Run(\E l \in 1..Len(Labels) : clockFits /\ colsFit(1) /\ addColumn(Labels[l]))
  \/ Run(\E c \in activeColIds : clockFits /\ handleDeleteColumn(c))

SpecCsvImport == Init /\ [][NextCsvImport]_vars

\* Paging: a stored table of 51 rows, 50 holding x and the last one y; the
\* user changes the page, searches for y, toggles and removes filters, and
\* deletes the first row shown.
StoredPagesTable ==
  StoredFolder(<< StoredTable("classic", FALSE, ColumnsA,
     [i \in 1..(ROWS_PER_PAGE + 1) |->
        [id |-> RowIdAt(0, i - 1),
         values |-> Put(EmptyMap, ColA0,
                        IF i <= ROWS_PER_PAGE THEN << "x" >> ELSE << "y" >>)]]) >>)

NextPages ==
  \/ Navigate
  \/ Back
  \/ Run(\E p \in pageChoices(rowsPage, totalRowsPages) : setRowsPage(p))
  \/ Run(setSearchInput(<< "y" >>))
  \/ Run(setSearchInput(<< >>))
  \/ Run(deferredRender)
  \/ Run(\E c \in activeColIds : \E v \in activeValues(c) : filtersFit(c, v) /\ toggleFilter(c, v))
  \/ Run(\E i \in 1..Len(activeFilters) :
           removeFilter(activeFilters[i].columnId, activeFilters[i].value))
  \/ Run(clearAllFilters)
  \/ Run(editsFit /\ paginatedRows # << >> /\ deleteRow(paginatedRows[1].id))

SpecPages == InitWith(StoredPagesTable) /\ [][NextPages]_vars

\* Filters and columns: the user opens a stored table, toggles sidebar
\* values, removes filters and deletes columns.
NextFilterColumns ==
  \/ Navigate
  \/ Back
  \/ Run(\E c \in activeColIds : \E v \in activeValues(c) : filtersFit(c, v) /\ toggleFilter(c, v))
  \/ Run(\E i \in 1..Len(activeFilters) :
           removeFilter(activeFilters[i].columnId, activeFilters[i].value))
  \/ Run(clearAllFilters)
  \/ Run(\E c \in activeColIds : editsFit /\ handleDeleteColumn(c))
  \/ Run(setSearchInput(SearchTexts[1]))
  \/ Run(setSearchInput(<< >>))
  \/ Run(deferredRender)

SpecFilterColumns == Init /\ [][NextFilterColumns]_vars

\* Deferred generation: a folder with a pairwise table and a classic table
\* beside a second folder; after Save the user cancels the dialog, pastes
\* JSON into the table, goes back, opens another table or deletes a table,
\* and the timer fires at any point.
StoredDeferredTables ==
  << StoredFolder(<< StoredTable("pairwise", FALSE, ColumnsA, RowsA),
                     StoredAt(0 - 1, StoredTable("classic", FALSE, ColumnsA, RowsA)) >>)[1],
     StoredAt(0 - 1, StoredFolder(
        << StoredAt(0 - 2, StoredTable("pairwise", FALSE, ColumnsA, << >>)) >>)[1]) >>

NextDeferred ==
  \/ Navigate
  \/ Back
  \/ Run(openAddRow)
  \/ Run(\E c \in activeColIds : setNewRowValue(c, NewRowTexts[2]))
  \/ Run(cancelAddRow)
  \/ Run(clockFits /\ genFits /\ handleAddRow)
  \/ Run(pairwiseTimeout)
  \/ Run(timers # << >> /\ clockFits /\ jsonFits(5) /\ handlePasteJSON(5))
  \/ Run(\E f \in 1..Len(folders) : \E i \in 1..Len(folders[f].tables) :
           timers # << >> /\ deleteTable(folders[f].tables[i].id))

SpecDeferred == InitWith(StoredDeferredTables) /\ [][NextDeferred]_vars

\* The table list: a stored folder of one table more than a page; the user opens
\* the folder, opens and deletes the tables the list displays and goes back.
\* The pagination under the list offers no page in any state, so no step
\* changes tablesPage other than the reset on a change of folder.
StoredListedTables ==
  StoredFolder([k \in 1..(TABLES_PER_PAGE + 1) |->
                  StoredAt(1 - k, StoredTable("classic", FALSE, ColumnsA, << >>))])

NextTableList ==
  \/ Run(\E f \in 1..Len(folders) : setActiveFolderId(folders[f].id))
  \/ Back
  \/ Run(\E k \in 1..Len(paginatedTables) : setActiveTableId(paginatedTables[k].id))
  \/ Run(\E k \in 1..Len(paginatedTables) : deleteTable(paginatedTables[k].id))

SpecTableList == InitWith(StoredListedTables) /\ [][NextTableList]_vars

\* Numbering under interleavings: the user opens a stored table, picks a
\* JSON or CSV file whose read completes later, pastes the same JSON, and
\* saves the new-row dialog, whose pairwise generation completes later.
NextAutoIds ==
  \/ Navigate
  \/ Run(clockFits /\ jsonFits(5) /\ handlePasteJSON(5))
  \/ Run(Len(readers) < MaxReaders /\ jsonFits(5) /\ handleImportJSON(5))
  \/ Run(Len(readers) < MaxReaders /\ csvFits(1) /\ handleImportCSV(1))
  \/ Run(\E k \in 1..Len(readers) : clockFits /\ readerOnload(k))
  \/ Run(openAddRow)
  \/ Run(\E c \in activeColIds : setNewRowValue(c, NewRowTexts[1]))
  \/ Run(cancelAddRow)
  \/ Run(clockFits /\ saveFits /\ handleAddRow)
  \/ Run(clockFits /\ pairwiseTimeout)

SpecAutoIds == Init /\ [][NextAutoIds]_vars

(* -------------------------------- claims -------------------------------- *)
\* every table of every folder, as a set of records [f, i]
AllTables ==
  {ft \in (1..Len(folders)) \X (1..MaxTables + 8) : ft[2] <= Len(folders[ft[1]].tables)}
TableAt(ft) == folders[ft[1]].tables[ft[2]]

\* C1: in every table, the keys of every row's values map are ids of columns
\* of that table.
C1_ValueKeysAreColumnIds ==
  \A ft \in AllTables :
    \A r \in 1..Len(TableAt(ft).rows) :
      DOMAIN TableAt(ft).rows[r].values \subseteq ColIdSet(TableAt(ft))

\* the table an operation addressed, before and after the step
OpTableBefore == TableOf(folders, lastOp'.fid, lastOp'.tid)
OpTableAfter == TableOf(folders', lastOp'.fid, lastOp'.tid)
OpAdded == Len(OpTableAfter.rows) - Len(OpTableBefore.rows)
GenOps == {"handleAddRow:classic", "pairwiseTimeout"}
SaveOps == {"handleAddRow:rejected", "handleAddRow:classic", "handleAddRow:pairwise"}
\* what the dialog held when the generation that now completes was requested
GenInput == IF lastOp'.op = "pairwiseTimeout" THEN Head(timers).newRowValues ELSE newRowValues
MaxOf(S) == CHOOSE m \in S : \A n \in S : n <= m

\* C3: on a table whose enabled auto-id column exists, the k-th generated row
\* (k from 0) gets the identifier 1 + max + k, where max is the largest
\* integer parsed from the identifier cells of the existing rows, cells that
\* are absent or do not parse being skipped, and 0 when none parses.
C3_AutoIdNumbering ==
  [][(lastOp'.op \in GenOps /\ OpTableBefore.autoIdEnabled
        /\ OpTableBefore.autoIdColumnId \in ColIdSet(OpTableBefore)) =>
       \A t \in {OpTableBefore} : \A after \in {OpTableAfter} :
         LET c == t.autoIdColumnId
             cells == [i \in 1..Len(t.rows) |-> parseInt(Get(t.rows[i].values, c))]
             parsed == {cells[i].num : i \in {j \in 1..Len(cells) : ~cells[j].nan}}
         IN \A max \in {IF parsed = {} THEN 0 ELSE MaxOf(parsed)} :
              \A k \in 0..(Len(after.rows) - Len(t.rows) - 1) :
                Get(after.rows[k + 1].values, c) = NumToStr(max + 1 + k)]_vars

\* a classic generation on identifier cells 7, bad, absent, 3 has numbered
\* its rows 8, 9, 10
C3_Witness ==
  /\ lastOp.op = "handleAddRow:classic" /\ lastOp.arg = 3
  /\ Len(activeTable.rows) = 7
  /\ Get(activeTable.rows[5].values, IdCol0) = << "b", "a", "d" >>
  /\ Get(activeTable.rows[1].values, IdCol0) = << "8" >>
  /\ Get(activeTable.rows[3].values, IdCol0) = << "1", "0" >>

\* the option list the claim gives column i of table t for dialog input nrv
ClaimOptions(t, nrv, i) ==
  LET parts == MapTrim(Split(Get(nrv, t.columns[i].id), "/"))
      kept == SelectSeq2(parts, {j \in 1..Len(parts) : parts[j] # << >>})
  IN IF kept = << >> THEN << << >> >> ELSE kept

RECURSIVE ClaimProduct(_, _, _)
\* the product of the option counts of the columns after column i
ClaimProduct(t, nrv, i) ==
  IF i >= Len(t.columns) THEN 1
  ELSE Len(ClaimOptions(t, nrv, i + 1)) * ClaimProduct(t, nrv, i + 1)

\* C4: a pairwise generation adds min(2000, product of the option counts)
\* rows, the first tuples of the cartesian product of the columns' option
\* lists in column order, the first column varying slowest; a column without
\* a non-empty part has the single option ''.
C4_PairwiseProduct ==
  [][lastOp'.op = "pairwiseTimeout" =>
       LET t == OpTableBefore
           nrv == GenInput
           total == ClaimProduct(t, nrv, 0)
           count == IF total < PAIRWISE_CAP THEN total ELSE PAIRWISE_CAP
           option(k, i) ==
             ClaimOptions(t, nrv, i)[((k \div ClaimProduct(t, nrv, i))
                                        % Len(ClaimOptions(t, nrv, i))) + 1]
       IN /\ OpAdded = count
          /\ \A k \in 0..(count - 1) : \A i \in 1..Len(t.columns) :
               (t.autoIdEnabled /\ t.columns[i].id = t.autoIdColumnId)
               \/ Get(OpTableAfter.rows[k + 1].values, t.columns[i].id) = option(k, i)]_vars

\* C5: a classic generation on a table with a column adds as many rows as
\* the largest number of '/'-separated parts over the columns' inputs (an
\* empty input is one empty part); row i holds, for each column but the
\* identifier column, the trimmed i-th part of its input, or '' when the
\* input has fewer parts; empty parts are kept.
C5_ClassicParts ==
  [][(lastOp'.op = "handleAddRow:classic" /\ Len(OpTableBefore.columns) >= 1) =>
       LET t == OpTableBefore
           parts(i) == MapTrim(Split(Get(newRowValues, t.columns[i].id), "/"))
           count == MaxOf({Len(parts(i)) : i \in 1..Len(t.columns)})
       IN /\ OpAdded = count
          /\ \A k \in 1..count : \A i \in 1..Len(t.columns) :
               (t.autoIdEnabled /\ t.columns[i].id = t.autoIdColumnId)
               \/ Get(OpTableAfter.rows[k].values, t.columns[i].id)
                    = IF k <= Len(parts(i)) THEN parts(i)[k] ELSE << >>]_vars

\* the inputs "x/ /y " and "x" have made the rows (x, x), ('', ''), (y, '')
C5_Witness ==
  /\ lastOp.op = "handleAddRow:classic" /\ lastOp.arg = 3
  /\ Get(activeTable.rows[1].values, ColA0) = << "x" >>
  /\ Get(activeTable.rows[1].values, ColB0) = << "x" >>
  /\ ColA0 \in DOMAIN activeTable.rows[2].values
  /\ activeTable.rows[2].values[ColA0] = << >>
  /\ Get(activeTable.rows[3].values, ColA0) = << "y" >>
  /\ Get(activeTable.rows[3].values, ColB0) = << >>

\* some input of the dialog has a segment longer than the limit once trimmed
OverLength(nrv) ==
  \E c \in DOMAIN nrv :
    \E j \in 1..Len(Split(nrv[c], "/")) : Len(Trim(Split(nrv[c], "/")[j])) > 50

\* C7: a Save request while some input has a '/'-separated segment whose
\* trimmed length exceeds 50 adds no rows, schedules no deferred generation
\* and leaves the folder collection unchanged.
C7_OverLengthRejected ==
  [][(lastOp'.op \in SaveOps /\ OverLength(newRowValues)) =>
       (folders' = folders /\ timers' = timers)]_vars

\* Save was requested with an over-length segment in the dialog
C7_Witness ==
  /\ lastOp.op = "handleAddRow:rejected"
  /\ isAddingRow /\ OverLength(newRowValues)
  /\ \E c \in DOMAIN newRowValues : newRowValues[c] = EdgeSegment

\* C2: on a table with an auto-id column, neither the Edit Record dialog nor
\* a bulk edit of the selected rows, opened under any active filters, changes
\* the auto-id cell of an existing row.
C2_AutoIdCellsNotEdited ==
  [][lastOp'.op \in {"saveEditRow", "applyBulkEdit"} =>
       \A t \in {OpTableBefore} : \A after \in {OpTableAfter} :
         (t.autoIdEnabled /\ t.autoIdColumnId \in ColIdSet(t)) =>
           \A i \in 1..Len(t.rows) : \A j \in 1..Len(after.rows) :
             after.rows[j].id = t.rows[i].id =>
               Get(after.rows[j].values, t.autoIdColumnId)
                 = Get(t.rows[i].values, t.autoIdColumnId)]_vars

JsonOps == {"handlePasteJSON:failed", "handlePasteJSON:native", "handlePasteJSON:generic",
            "handleImportJSON:failed", "handleImportJSON:native", "handleImportJSON:generic"}
GenericOps == {"handlePasteJSON:generic", "handleImportJSON:generic"}
ImportOps == {"handlePasteJSON:native", "handlePasteJSON:generic", "handleImportJSON:native",
              "handleImportJSON:generic", "handleImportCSV:done"}
RowIdsOf(t) == [i \in 1..Len(t.rows) |-> t.rows[i].id]

\* C6: a generation puts its rows before the existing rows and an import
\* puts its rows after them; the existing rows keep their order and the new
\* rows are in generation order.
C6_RowOrder ==
  [][lastOp'.op \in GenOps \cup ImportOps =>
       \A old \in {RowIdsOf(OpTableBefore)} : \A new \in {RowIdsOf(OpTableAfter)} :
         \A made \in {[k \in 1..(Len(new) - Len(old)) |-> RowIdAt(now, k - 1)]} :
           IF lastOp'.op \in GenOps THEN new = made \o old ELSE new = old \o made]_vars

\* a pairwise generation has put its two rows before the two stored rows
C6_Witness ==
  /\ lastOp.op = "pairwiseTimeout" /\ lastOp.arg = 2
  /\ RowIdsOf(activeTable) = << RowIdAt(1, 0), RowIdAt(1, 1), RowIdAt(0, 0), RowIdAt(0, 1) >>

\* the payloads whose import fails: text that is not JSON, null, an empty
\* array, a native payload without a usable column
FailingPayloads == {1, 2, 3, 4}

\* C8: a JSON import that fails leaves the columns and rows of the table as
\* they were.
C8_FailedImportChangesNothing ==
  [][(lastOp'.op \in JsonOps /\ lastOp'.arg \in FailingPayloads) =>
       /\ OpTableAfter.columns = OpTableBefore.columns
       /\ OpTableAfter.rows = OpTableBefore.rows]_vars

\* the file of a native payload without a usable column was read, and the
\* stored rows and column are still there
C8_Witness ==
  /\ lastOp.op = "handleImportJSON:failed" /\ lastOp.arg = 4
  /\ Len(activeTable.rows) = 2 /\ Len(activeTable.columns) = 1

\* C9: in a generic import, a source key whose normalized label is that of
\* an existing column adds no column, and the imported rows carry the key's
\* value under the id of the existing column.
C9_GenericReusesColumns ==
  [][lastOp'.op \in GenericOps =>
       \A t \in {OpTableBefore} : \A after \in {OpTableAfter} :
         \A dataArray \in {dataArrayOf(JsonPayloads[lastOp'.arg].value)} :
           \A key \in Range(colKeysOf(dataArray)) : \A i \in 1..Len(t.columns) :
             normalizeLabel(t.columns[i].label) = normalizeLabel(key) =>
               /\ \A j \in (Len(t.columns) + 1)..Len(after.columns) :
                    normalizeLabel(after.columns[j].label) # normalizeLabel(key)
               /\ \A k \in 1..Len(expandRows(dataArray)) :
                    Get(after.rows[Len(t.rows) + k].values, t.columns[i].id)
                      = CellText(ExpandedProp(expandRows(dataArray)[k], key))]_vars

\* C10: among the columns a generic import creates there is at most one per
\* normalized label.
C10_GenericMergesKeys ==
  [][lastOp'.op \in GenericOps =>
       \A t \in {OpTableBefore} : \A after \in {OpTableAfter} :
         \A i, j \in (Len(t.columns) + 1)..Len(after.columns) :
           normalizeLabel(after.columns[i].label) = normalizeLabel(after.columns[j].label)
             => i = j]_vars

\* the mode of the filter for a pair in a filter list, "absent" when none
ModeOf(filters, p) ==
  IF hasFilter(filters, p.columnId, p.value)
  THEN findFilter(filters, p.columnId, p.value).mode ELSE "absent"
\* the filters of a list for the pairs other than p, in order
OthersOf(filters, p) ==
  SelectSeq2(filters, {i \in 1..Len(filters) :
                        ~(filters[i].columnId = p.columnId /\ filters[i].value = p.value)})

\* C11: a toggleFilter call on a pair moves the pair's filter one step along
\* the cycle absent -> include -> exclude -> absent, so that three successive
\* calls from no filter leave include, then exclude, then no filter; the
\* filters of every other pair are unchanged by the call.
C11_ToggleCycle ==
  [][lastOp'.op = "toggleFilter" =>
       \A p \in {lastOp'.arg} :
         /\ ModeOf(activeFilters', p) =
              CASE ModeOf(activeFilters, p) = "absent" -> "include"
                [] ModeOf(activeFilters, p) = "include" -> "exclude"
                [] OTHER -> "absent"
         /\ Cardinality({i \in 1..Len(activeFilters') :
                           /\ activeFilters'[i].columnId = p.columnId
                           /\ activeFilters'[i].value = p.value})
              = IF ModeOf(activeFilters', p) = "absent" THEN 0 ELSE 1
         /\ OthersOf(activeFilters', p) = OthersOf(activeFilters, p)]_vars

\* the third toggle of a pair has removed its filter while the filter of
\* another pair is still in place
C11_Witness ==
  /\ lastOp.op = "toggleFilter"
  /\ ModeOf(activeFilters, lastOp.arg) = "absent"
  /\ Len(activeFilters) > 0
  /\ rowsPage = 1

\* C12: the active-filter list holds at most one filter per (columnId, value)
C12_OneFilterPerPair ==
  \A i \in 1..Len(activeFilters) : \A j \in 1..Len(activeFilters) :
    (activeFilters[i].columnId = activeFilters[j].columnId
       /\ activeFilters[i].value = activeFilters[j].value) => i = j

\* two filters on different pairs are active after a chip was removed
C12_Witness ==
  /\ lastOp.op = "removeFilter"
  /\ Len(activeFilters) >= 2
\* the operations that mutate a table through updateActiveTable
UpdateOps ==
  {"addColumn", "renameColumn", "handleDeleteColumn", "handleColumnDrop",
   "handleAddRow:classic", "pairwiseTimeout", "saveEditRow", "applyBulkEdit",
   "deleteSelected", "deleteRow", "handlePasteJSON:native", "handlePasteJSON:generic",
   "handleImportJSON:native", "handleImportJSON:generic", "handleImportCSV:done"}
\* the folder and the table the operation was given exist in a collection
TargetIn(fs, op) == HasFolder(fs, op.fid) /\ HasTable(fs, op.fid, op.tid)

\* C13: a mutation through updateActiveTable leaves every folder other than
\* the active one identical, keeps the folders and the tables of the active
\* folder in place, leaves every table other than the active one identical,
\* and yields a collection different from the one before.
C13_UpdateFrame ==
  [][(lastOp'.op \in UpdateOps /\ TargetIn(folders, lastOp')) =>
       /\ Len(folders') = Len(folders)
       /\ folders' # folders
       /\ \A i \in 1..Len(folders) :
            IF folders[i].id # lastOp'.fid THEN folders'[i] = folders[i]
            ELSE /\ folders'[i].id = folders[i].id
                 /\ Len(folders'[i].tables) = Len(folders[i].tables)
                 /\ \A j \in 1..Len(folders[i].tables) :
                      IF folders[i].tables[j].id # lastOp'.tid
                      THEN folders'[i].tables[j] = folders[i].tables[j]
                      ELSE folders'[i].tables[j].id = lastOp'.tid]_vars

\* a row of one table of a folder with two tables has been deleted while a
\* second folder exists
C13_Witness ==
  /\ lastOp.op = "deleteRow"
  /\ Len(folders) >= 2
  /\ HasFolder(folders, lastOp.fid)
  /\ Len(FolderOf(folders, lastOp.fid).tables) >= 2
  /\ FolderOf(folders, lastOp.fid).updatedAt = now - 1

\* C14: a folder's updatedAt is not earlier than the updatedAt of any table
\* it owns
C14_FolderNotOlderThanTables ==
  \A i \in 1..Len(folders) : \A j \in 1..Len(folders[i].tables) :
    folders[i].updatedAt >= folders[i].tables[j].updatedAt

\* C15: a mutation through updateActiveTable whose folder id or table id
\* matches no folder or table leaves the collection unchanged
C15_MissingTargetIsNoOp ==
  [][(lastOp'.op \in UpdateOps /\ ~TargetIn(folders, lastOp')) =>
       folders' = folders]_vars

\* the tables of a collection as a set of records [fid, tid, auto]
AutoIds(fs) ==
  {[fid |-> fs[ft[1]].id, tid |-> fs[ft[1]].tables[ft[2]].id,
    auto |-> fs[ft[1]].tables[ft[2]].autoIdColumnId] :
     ft \in {x \in (1..Len(fs)) \X (1..MaxTables + 8) : x[2] <= Len(fs[x[1]].tables)}}

\* C20: a table's autoIdColumnId, when set, is the id of one of its columns,
\* and no step changes the autoIdColumnId of a table that exists before and
\* after the step.
C20_AutoIdColumnFixed ==
  /\ [](\A ft \in AllTables :
          TableAt(ft).autoIdColumnId # NullId =>
            TableAt(ft).autoIdColumnId \in ColIdSet(TableAt(ft)))
  /\ [][\A a \in AutoIds(folders) : \A b \in AutoIds(folders') :
          (a.fid = b.fid /\ a.tid = b.tid) => a.auto = b.auto]_vars

\* a column of a table with an identifier column has been deleted
C20_Witness ==
  /\ lastOp.op = "handleDeleteColumn"
  /\ hasActiveTable
  /\ activeTable.autoIdColumnId # NullId
  /\ activeTable.autoIdColumnId \in ColIdSet(activeTable)
  /\ Len(activeTable.rows) > 0

\* the read at startup failed or met text that JSON.parse rejects
FailedRead == localStorage.read \in {"throws", "corrupt"}

\* C16, the read: after a failed or unparsable read at startup the folder
\* collection is empty
StartsEmptyAfterFailedRead ==
  (lastOp.op = "init" /\ FailedRead) => folders = << >>

\* C16: a storage failure is never fatal: a failed or unparsable read at
\* startup yields an empty folder collection, and a failed write of the
\* snapshot raises nothing
C16_StorageFailureNotFatal ==
  /\ StartsEmptyAfterFailedRead
  /\ lastOp.op # "init" => uncaught = "none"

\* the sum of the counts of a column's statistics
RECURSIVE SumCounts(_, _)
SumCounts(counts, keys) ==
  IF keys = {} THEN 0
  ELSE LET k == CHOOSE x \in keys : TRUE
       IN counts[k].n + SumCounts(counts, keys \ {k})

\* C17: for every column of the active table every count is a number, and
\* emptyCount plus the sum of the counts equals the number of rows, whatever
\* the search text and the active filters
C17_StatsCoverAllRows ==
  hasActiveTable =>
    \A c \in ColIdSet(activeTable) :
      \A st \in {columnValueStats(activeTable, c)} :
        /\ \A v \in DOMAIN st.counts : st.counts[v].isNumber
        /\ st.emptyCount + SumCounts(st.counts, DOMAIN st.counts)
             = Len(activeTable.rows)

\* a grid without a row whose cells are all blank and without a carriage
\* return in a cell
RoundTripGrid(g) ==
  \A r \in 1..Len(g) :
    /\ \E c \in 1..Len(g[r]) : Trim(g[r][c]) # << >>
    /\ \A c \in 1..Len(g[r]) : \A i \in 1..Len(g[r][c]) : g[r][c][i] # "\r"

\* C18: parseCSV(stringifyCSV(g)) = g for every grid g without an all-blank
\* row and without a carriage return in a cell
C18_CsvRoundTrip ==
  (call.fn = "parseCSV(stringifyCSV)" /\ RoundTripGrid(call.input)) =>
    call.output = call.input

\* a grid of two rows with a comma, a quote and a newline in its cells has
\* gone through stringifyCSV and parseCSV
C18_Witness ==
  /\ call.fn = "parseCSV(stringifyCSV)"
  /\ call.input = << << << "," >>, << "\"" >> >>, << << "\n" >>, << "a" >> >> >>
  /\ call.output = call.input

\* C19: validateSegments returns isValid exactly when no segment has more
\* than 50 characters after trimming, the empty text included, and
\* invalidSegments lists the segments that have, in order, one entry each
C19_ValidateSegments ==
  call.fn = "validateSegments" =>
    \A over \in {{i \in 1..Len(call.input) : Len(Trim(call.input[i])) > 50}} :
      /\ call.output.isValid = (over = {})
      /\ call.output.invalidSegments = SelectSeq2(call.input, over)

\* a text of three segments, of 50 characters, of 51 characters and of 50
\* characters after a blank, was found invalid with one invalid segment
C19_Witness ==
  /\ call.fn = "validateSegments"
  /\ call.input = << Tail(LongSegment), LongSegment, EdgeSegment >>
  /\ ~call.output.isValid
  /\ Len(call.output.invalidSegments) = 1

\* C21: pairwise generations are serialized: at most one deferred generation
\* is pending, isProcessing is true exactly while one is pending (so the
\* Save button is disabled), a Save is accepted only when none is pending,
\* and a pending generation leaves only by its own commit, which resets
\* isProcessing
C21_PairwiseSerialized ==
  /\ [](Len(timers) <= 1 /\ (isProcessing <=> timers # << >>)
         /\ (timers # << >> => saveDisabled))
  /\ [][/\ (lastOp'.op \in {"handleAddRow:pairwise", "handleAddRow:classic"}
               => timers = << >>)
         /\ (timers' # timers
               => \/ lastOp'.op = "handleAddRow:pairwise" /\ Len(timers') = 1
                  \/ /\ lastOp'.op = "pairwiseTimeout"
                     /\ timers' = << >> /\ ~isProcessing')]_vars

\* a deferred generation is pending, the new-row dialog was cancelled and
\* opened again, and it holds valid input: only isProcessing disables Save
C21_Witness ==
  /\ Len(timers) = 1 /\ isProcessing
  /\ hasActiveTable /\ isAddingRow /\ isNewRowDataValid
  /\ lastOp.op = "openAddRow"

\* the text q occurs in the text v when letter case is ignored
ContainsIgnoringCase(v, q) ==
  \E i \in 1..(Len(v) + 1) :
    \A k \in 1..Len(q) :
      i + k - 1 <= Len(v) /\ LowerChar(v[i + k - 1]) = LowerChar(q[k])

\* the row passes the search text and every filter, as the specification
\* states it
ShouldShow(row, search, filters) ==
  /\ search # << >> =>
       \E c \in DOMAIN row.values : ContainsIgnoringCase(row.values[c], search)
  /\ \A i \in 1..Len(filters) :
       \A cell \in {IF filters[i].columnId \in DOMAIN row.values
                     THEN row.values[filters[i].columnId] ELSE << >>} :
         (filters[i].mode = "include" => cell = filters[i].value)
         /\ (filters[i].mode = "exclude" => cell # filters[i].value)

\* C22: filteredRows holds exactly the rows of the active table that pass
\* the deferred search text and every active filter, in the table's order,
\* and is empty without an active table
C22_FilteredRows ==
  IF ~hasActiveTable THEN filteredRows = << >>
  ELSE \A shown \in {{i \in 1..Len(activeTable.rows) :
                        ShouldShow(activeTable.rows[i], deferredSearch, activeFilters)}} :
         /\ Len(filteredRows) = Cardinality(shown)
         /\ \A k \in 1..Len(filteredRows) :
              \E i \in shown :
                /\ Cardinality({j \in shown : j < i}) = k - 1
                /\ filteredRows[k] = activeTable.rows[i]

\* the search text XY, an include filter on an absent cell and an exclude
\* filter leave one row of four, the one holding xY
C22_Witness ==
  /\ hasActiveTable /\ Len(activeTable.rows) = 4
  /\ deferredSearch = << "X", "Y" >>
  /\ \E i, j \in 1..Len(activeFilters) :
       /\ activeFilters[i].mode = "include" /\ activeFilters[i].value = << >>
       /\ activeFilters[j].mode = "exclude"
  /\ filteredRows = << activeTable.rows[3] >>

\* a step shows a table in the sidebar after the sidebar search text or the
\* table changed
SidebarChanged ==
  /\ hasActiveTable'
  /\ \/ sidebarSearch' # sidebarSearch
     \/ ~hasActiveTable
     \/ activeTable' # activeTable

\* the columns of table t one of whose distinct cell values contains text
ColumnsMatching(t, text) ==
  {c \in ColIdSet(t) :
     \E i \in 1..Len(t.rows) :
       /\ Get(t.rows[i].values, c) # << >>
       /\ ContainsIgnoringCase(Get(t.rows[i].values, c), text)}

\* the columns marked expanded
Expanded(m) == {c \in DOMAIN m : m[c]}

\* C23 as stated: after every change of a sidebar search text or of the
\* table, every column with a value containing the text is expanded and no
\* expanded column is collapsed
C23_AutoExpandAnyText ==
  [][(SidebarChanged /\ sidebarSearch' # << >>) =>
       /\ ColumnsMatching(activeTable', sidebarSearch') \subseteq Expanded(expandedCols')
       /\ Expanded(expandedCols) \subseteq Expanded(expandedCols')]_vars

\* C23: after every change of the sidebar search text or of the table, no
\* expanded column is collapsed; when the text has a character that is not
\* white space, the expanded columns are those expanded before and those
\* with a value containing the text; otherwise nothing is changed
C23_AutoExpandMerge ==
  [][SidebarChanged =>
       IF Trim(sidebarSearch') # << >>
       THEN Expanded(expandedCols') =
              Expanded(expandedCols) \cup ColumnsMatching(activeTable', sidebarSearch')
       ELSE expandedCols' = expandedCols]_vars

\* column b is expanded by the search text y after column a was expanded
\* by the text "n " and collapsed by hand: both runs merged into the state
C23_Witness ==
  /\ hasActiveTable /\ sidebarSearch = << "y" >>
  /\ lastOp.op = "setSidebarSearch"
  /\ Expanded(expandedCols) = {ColA0, ColB0}

\* C24: a CSV import maps the headers one-to-one to columns of the table: a
\* header's column is either a column the table had, with the same
\* normalized label, or a column the import added, labelled as the header
\* (Column n for a blank header); one column is added per header of the
\* second kind; the imported rows hold the cells of the file under the
\* mapped columns and a value for every column; the rows the table had hold
\* a value for every added column
C24_CsvHeaderMapping ==
  [][(lastOp'.op = "handleImportCSV:done" /\ HasTable(folders, lastOp'.fid, lastOp'.tid)) =>
       \A t \in {OpTableBefore} : \A t2 \in {OpTableAfter} :
       \A rows \in {parseCSV(CsvFiles[lastOp'.arg])} :
         LET headers == csvHeaders(rows)
             data == csvDataRows(rows)
             old == ColIdSet(t)
             labelOf(i) == IF headers[i] # << >> THEN headers[i]
                           ELSE ColumnNText \o NumToStr(i)
             cell(k, i) == IF i <= Len(data[k]) THEN data[k][i] ELSE << >>
             imported(k) == t2.rows[Len(t.rows) + k]
         IN /\ Len(t2.rows) = Len(t.rows) + Len(data)
            /\ \E m \in [1..Len(headers) -> ColIdSet(t2)] :
                 /\ \A i, j \in 1..Len(headers) : i # j => m[i] # m[j]
                 /\ \A i \in 1..Len(headers) :
                      IF m[i] \in old
                      THEN \E c \in Range(t.columns) :
                             /\ c.id = m[i]
                             /\ normalizeLabel(c.label) = normalizeLabel(labelOf(i))
                      ELSE \E c \in Range(t2.columns) :
                             c.id = m[i] /\ c.label = labelOf(i)
                 /\ Len(t2.columns) =
                      Len(t.columns) + Cardinality({i \in 1..Len(headers) : m[i] \notin old})
                 /\ \A k \in 1..Len(data) : \A i \in 1..Len(headers) :
                      \/ t.autoIdEnabled /\ t.autoIdColumnId = m[i]
                      \/ Get(imported(k).values, m[i]) = cell(k, i)
            /\ \A k \in 1..Len(data) : ColIdSet(t2) \subseteq DOMAIN imported(k).values
            /\ \A r \in 1..Len(t.rows) :
                 (ColIdSet(t2) \ old) \subseteq DOMAIN t2.rows[r].values]_vars

\* the file ",b" with the data row "1" was imported into a table of two
\* rows that had the columns a and b: the blank header made the column
\* "Column 1", the header b reused the column b, every row has a value
\* under the new column, and the short data row has an empty cell under b
C24_Witness ==
  /\ lastOp.op = "handleImportCSV:done" /\ lastOp.arg = Len(CsvTexts) + 1
  /\ hasActiveTable
  /\ Len(activeTable.columns) = 3 /\ Len(activeTable.rows) = 3
  /\ activeTable.columns[3].label = ColumnNText \o << "1" >>
  /\ \A r \in 1..3 : activeTable.columns[3].id \in DOMAIN activeTable.rows[r].values
  /\ activeTable.rows[3].values[activeTable.columns[3].id] = << "1" >>
  /\ activeTable.columns[2].label = << "b" >>
  /\ activeTable.rows[3].values[activeTable.columns[2].id] = << >>

\* C25: in every table of every folder the ids of the columns are pairwise
\* distinct
C25_ColumnIdsDistinct ==
  \A f \in 1..Len(folders) : \A x \in 1..Len(folders[f].tables) :
    \A i, j \in 1..Len(folders[f].tables[x].columns) :
      i # j => folders[f].tables[x].columns[i].id # folders[f].tables[x].columns[j].id

\* C26: in a table with an enabled auto-id column no two rows hold the same
\* identifier
C26_AutoIdsDistinct ==
  \A f \in 1..Len(folders) : \A x \in 1..Len(folders[f].tables) :
    \A t \in {folders[f].tables[x]} :
      t.autoIdEnabled =>
        \A i, j \in 1..Len(t.rows) :
          i # j => Get(t.rows[i].values, t.autoIdColumnId)
                     # Get(t.rows[j].values, t.autoIdColumnId)

\* C27: the current page of the rows is one of the pages the filtered rows
\* have (page 1 when there are none), so rows are displayed whenever the
\* filtered rows are not empty
C27_RowsPageInRange ==
  /\ rowsPage \in 1..Max2(1, (Len(filteredRows) + 49) \div 50)
  /\ filteredRows # << >> => paginatedRows # << >>

\* C28: every active filter is on a column of the active table, and there
\* is no filter without an active table
C28_FiltersOnColumns ==
  \A i \in 1..Len(activeFilters) :
    hasActiveTable /\ activeFilters[i].columnId \in ColIdSet(activeTable)

\* the rows of the table the operation was given, in a collection
TargetRows(fs, op) == TableOf(fs, op.fid, op.tid).rows

\* C29 as stated: whenever a deferred pairwise generation commits, its rows
\* are in the table that was active when Save was pressed
C29_DeferredRowsAlwaysAdded ==
  [][lastOp'.op = "pairwiseTimeout" =>
       /\ TargetIn(folders', lastOp')
       /\ Len(TargetRows(folders', lastOp')) >= lastOp'.arg
       /\ \A k \in 1..lastOp'.arg :
            TargetRows(folders', lastOp')[k].id = RowIdAt(now, k - 1)]_vars

\* C29: when a deferred pairwise generation commits, every table other than
\* the one that was active when Save was pressed is left identical, no table
\* appears or disappears, and that table, if it still exists, gets the new
\* rows in front of all the rows it held just before the commit
C29_DeferredRowsToSaveTable ==
  [][lastOp'.op = "pairwiseTimeout" =>
       /\ Len(folders') = Len(folders)
       /\ \A i \in 1..Len(folders) :
            /\ folders'[i].id = folders[i].id
            /\ Len(folders'[i].tables) = Len(folders[i].tables)
            /\ \A j \in 1..Len(folders[i].tables) :
                 IF folders[i].id = lastOp'.fid /\ folders[i].tables[j].id = lastOp'.tid
                 THEN /\ folders'[i].tables[j].id = lastOp'.tid
                      /\ lastOp'.arg >= 1
                      /\ Len(folders'[i].tables[j].rows)
                           = Len(folders[i].tables[j].rows) + lastOp'.arg
                      /\ \A k \in 1..lastOp'.arg :
                           folders'[i].tables[j].rows[k].id = RowIdAt(now, k - 1)
                      /\ \A k \in 1..Len(folders[i].tables[j].rows) :
                           folders'[i].tables[j].rows[lastOp'.arg + k]
                             = folders[i].tables[j].rows[k]
                 ELSE folders'[i].tables[j] = folders[i].tables[j]]_vars

\* a generation has committed into the table of its Save while another
\* table was open, and the table also holds a row pasted in the meantime
C29_Witness ==
  /\ lastOp.op = "pairwiseTimeout"
  /\ hasActiveTable /\ activeTableId # lastOp.tid
  /\ TargetIn(folders, lastOp)
  /\ Len(TargetRows(folders, lastOp)) > Len(RowsA) + lastOp.arg
  /\ lastOp.arg = 2

\* the table list of the active folder is displayed
tableListShown ==
  activeFolderId # NullId /\ activeTableId = NullId /\ HasFolder(folders, activeFolderId)

\* the pages of the table list the user can get to: the one displayed and
\* the ones the pagination offers
TablePagesInReach == {tablesPage} \cup tablesPageChoices

\* C30: while the table list of a folder that holds tables is displayed, the
\* pages within reach are as many as ceil(number of tables / 9), and every
\* table of the folder is on one of them
C30_TablePagesOffered ==
  tableListShown =>
    \A n \in {Len(FolderOf(folders, activeFolderId).tables)} :
      n > 0 =>
        /\ Cardinality(TablePagesInReach) = Ceil(n, TABLES_PER_PAGE)
        /\ Cardinality(TablePagesInReach) = totalTablesPages
        /\ \A j \in 1..n : Ceil(j, TABLES_PER_PAGE) \in TablePagesInReach

====
